---- MODULE Spec2Model ----
(***************************************************************************)
(* A state-machine model of CHAP (the Channel Annotation Package):         *)
(*   - SimulatedAnnealingModule  (src/src/optim/simulated_annealing_       *)
(*     module.cpp): setParams, setObjFun, setInitGuess, optimise/anneal/   *)
(*     annealIsotropic, cool, generateCandidateStateIsotropic,             *)
(*     acceptCandidateState, getOptimPoint;                                *)
(*   - trajectoryAnalysis::analyzeFrame (src/src/trajectory-analysis/      *)
(*     trajectory-analysis.cpp): the per-frame steps that touch members    *)
(*     of the analysis object, frames interleaved;                         *)
(*   - trajectoryAnalysis::finishAnalysis: the passes over the per-frame   *)
(*     stream file.                                                        *)
(* Reals are modelled exactly: costs and states are integers, the          *)
(* temperature is a normalised fraction.                                   *)
(***************************************************************************)
EXTENDS Integers, Sequences, FiniteSets, TLC

VARIABLES
    \* ---- SimulatedAnnealingModule ----
    phase,              \* "setup" | "loop" | "done" | "aborted"
    called,             \* the setters called so far
    params,             \* the map handed to setParams
    assigned,           \* the parameter fields setParams has assigned
    seed_, maxCoolingIter_, temp_, coolingFactor_, stepLengthFactor_,
    objFun_,
    stateDim_, crntState_, candState_, bestState_,
    crntCost_, candCost_, bestCost_,
    rng_,               \* state of the random engine
    nCoolingIter,       \* local counter of annealIsotropic
    initGuess,          \* the argument of setInitGuess
    trace,              \* one record per executed iteration
    result,             \* what getOptimPoint returned (<<>>: not called)
    \* ---- trajectoryAnalysis::analyzeFrame ----
    cfg,                \* options fixed by initOptions/initAnalysis
    frPc,               \* each frame task's position
    pfInitProbePos_,    \* member: initial probe position
    deBandWidthParam,   \* member deParams_: its band width
    objFile,            \* content of the OBJ output file
    frLocal,            \* each frame task's locals
    frData,             \* data sets each frame's handle holds
    frOrder,            \* frames in the order they called finishFrame
    streamFile,         \* records the exporter has written
    \* ---- trajectoryAnalysis::finishAnalysis ----
    agPc,               \* position in finishAnalysis
    inFileLines,        \* content of the per-frame stream file
    numFrames,          \* argument of finishAnalysis
    linesRead,          \* counter of the first pass
    linesProcessed,     \* counter of the second pass
    lengthTimeSeries,   \* values accumulated by the first pass
    radiusTimeSeries,   \* values accumulated by the second pass
    agError,            \* the error finishAnalysis threw ("" : none)
    streamOpens,        \* per pass: does inFile.open find the stream file
    pdbFile,            \* has the PDB file been written
    outFile,            \* the output JSON file as this call has written it
    linesCopied,        \* counter of the copy pass
    streamRemoved,      \* has std::remove been called on the stream file
    outputNumPoints_,   \* option out-num-points
    outputExtrapDist_,  \* option out-extrap-dist
    lengthSummary, arcLengthLoSummary, arcLengthHiSummary,
    supportPoints,      \* the grid the profiles are evaluated on
    anchorEnergyLo, anchorEnergyHi,
    energySummary,      \* one SummaryStatistics per support point
    timeStamps,         \* time stamps accumulated by the first pass
    numPoreRes,         \* number of residues the first line names
    residueArcSummary,  \* one SummaryStatistics per pore residue
    \* ---- analyzeFrame: pore-lining and pore-facing residues ----
    mpPc,               \* position in the residue classification
    poreCogRR,          \* per residue: distance of its COG from the centreline
    poreCalRR,          \* per residue: distance of its C-alpha
    poreLining,         \* per residue: result of checkIfInside
    nPoreLining,
    poreFacing,         \* the flags assigned so far, in residue order
    nPoreFacing,
    \* ---- BasisSpline ----
    bsPc,               \* position in the evaluation of a basis
    bsBase,             \* the knot vector before clamping
    bsDegree,
    bsX,                \* evaluation point
    bsKnots,            \* the clamped knot vector
    bsValues,           \* the basis values computed so far, in index order
    \* ---- analyzeFrame: input of the hydrophobicity smoother ----
    hpPc,               \* position in the preparation of the input
    poreCogSS,          \* per residue: arc-length coordinate of its COG
    hpBandWidth_,       \* option hydrophob-bandwidth
    plResidueCoordS, plResidueHydrophobicity,
    pfResidueCoordS, pfResidueHydrophobicity,
    minPoreResS, maxPoreResS,
    \* ---- trajectoryAnalysis::initAnalysis ----
    iaPc,               \* position in the checks of the mapping parameters
    mappingParams_,     \* member: mapTol_, extrapDist_, sampleStep_
    iaError,            \* the error initAnalysis threw ("" : none)
    \* ---- WavefrontObjObject ----
    vertices_,          \* member: the vertex positions
    woVertices,         \* the vertices handed to addVertices
    woFactors,          \* the arguments of the calls of scale, in order
    \* ---- SummaryStatistics ----
    ssObj,              \* one SummaryStatistics object
    ssOps               \* the calls made on it, in order

saVars == << phase, called, params, assigned, seed_, maxCoolingIter_, temp_,
             coolingFactor_, stepLengthFactor_, objFun_, stateDim_,
             crntState_, candState_, bestState_, crntCost_, candCost_,
             bestCost_, rng_, nCoolingIter, initGuess, trace, result >>

frVars == << cfg, frPc, pfInitProbePos_, deBandWidthParam, objFile, frLocal,
             frData, frOrder, streamFile >>

agVars == << agPc, inFileLines, numFrames, linesRead, linesProcessed,
             lengthTimeSeries, radiusTimeSeries, agError, streamOpens,
             pdbFile, outFile, linesCopied, streamRemoved,
             outputNumPoints_, outputExtrapDist_, lengthSummary,
             arcLengthLoSummary, arcLengthHiSummary, supportPoints,
             anchorEnergyLo, anchorEnergyHi, energySummary,
             timeStamps, numPoreRes, residueArcSummary >>

\* What the first pass accumulates besides its time series, and what the
\* second pass accumulates.
agPass1Stats == << lengthSummary, arcLengthLoSummary, arcLengthHiSummary,
                   timeStamps, numPoreRes >>
agPass2Stats == << anchorEnergyLo, anchorEnergyHi, energySummary,
                   residueArcSummary >>
agOptions == << outputNumPoints_, outputExtrapDist_ >>

\* What the output part of finishAnalysis writes.
agOutVars == << pdbFile, outFile, linesCopied, streamRemoved >>

mpVars == << mpPc, poreCogRR, poreCalRR, poreLining, nPoreLining, poreFacing,
             nPoreFacing >>

bsVars == << bsPc, bsBase, bsDegree, bsX, bsKnots, bsValues >>

ssVars == << ssObj, ssOps >>

woVars == << vertices_, woVertices, woFactors >>

iaVars == << iaPc, mappingParams_, iaError >>

hpVars == << hpPc, poreCogSS, hpBandWidth_, plResidueCoordS,
             plResidueHydrophobicity, pfResidueCoordS,
             pfResidueHydrophobicity, minPoreResS, maxPoreResS >>

vars == << saVars, frVars, agVars, mpVars, bsVars, ssVars, hpVars, iaVars, woVars >>

(***************************************************************************)
(* Bounds of the model.                                                    *)
(***************************************************************************)
MaxIter == 3
MaxDim == 2

(***************************************************************************)
(* Exact fractions: [n |-> numerator, d |-> denominator], d > 0, reduced.  *)
(***************************************************************************)
Abs(x) == IF x < 0 THEN -x ELSE x

RECURSIVE Gcd(_, _)
Gcd(a, b) == IF b = 0 THEN a ELSE Gcd(b, a % b)

Rat(n, d) ==
    LET g == Gcd(Abs(n), Abs(d))
        s == IF d < 0 THEN -1 ELSE 1
    IN  [n |-> (s * n) \div g, d |-> (s * d) \div g]

\* What a real holds after a division by zero (infinity or NaN) and after
\* any operation on such a value.
NotFinite == [n |-> 0, d |-> 0]

RatFinite(a) == a.d # 0
RatOfInt(i) == [n |-> i, d |-> 1]

RatMul(a, b) ==
    IF RatFinite(a) /\ RatFinite(b)
    THEN LET g == Gcd(Abs(a.n), b.d)
             h == Gcd(Abs(b.n), a.d)
         IN  Rat((a.n \div g) * (b.n \div h), (a.d \div h) * (b.d \div g))
    ELSE NotFinite
RatLess(a, b) == a.n * b.d < b.n * a.d
RatPos(a) == a.n > 0

RatAdd(a, b) ==
    IF RatFinite(a) /\ RatFinite(b)
    THEN LET g == Gcd(a.d, b.d)
         IN  Rat(a.n * (b.d \div g) + b.n * (a.d \div g), (a.d \div g) * b.d)
    ELSE NotFinite
RatSub(a, b) ==
    IF RatFinite(a) /\ RatFinite(b) THEN Rat(a.n * b.d - b.n * a.d, a.d * b.d)
    ELSE NotFinite
RatDiv(a, b) ==
    IF RatFinite(a) /\ RatFinite(b) /\ b.n # 0 THEN Rat(a.n * b.d, a.d * b.n)
    ELSE NotFinite
RatMin(a, b) == IF RatLess(b, a) THEN b ELSE a
RatMax(a, b) == IF RatLess(a, b) THEN b ELSE a

RECURSIVE RatSum(_)
RatSum(q) == IF q = << >> THEN RatOfInt(0) ELSE RatAdd(Head(q), RatSum(Tail(q)))

RECURSIVE SumSeq(_)
SumSeq(s) == IF s = << >> THEN 0 ELSE Head(s) + SumSeq(Tail(s))

(***************************************************************************)
(* Inputs of the annealing module.                                         *)
(***************************************************************************)
Keys == {"saSeed", "saRandomSeed", "saMaxCoolingIter", "saInitTemp",
         "saCoolingFactor", "saStepLengthFactor"}

\* The values a key may carry.  saCoolingFactor counts halves: 0, 1/2, 1, 3/2.
ParamVals(k) ==
    CASE k = "saSeed" -> {1, 2}
      [] k = "saRandomSeed" -> {1, 2}
      [] k = "saMaxCoolingIter" -> 0 .. MaxIter
      [] k = "saInitTemp" -> {-1, 0, 1, 2}
      [] k = "saCoolingFactor" -> {0, 1, 2, 3}
      [] k = "saStepLengthFactor" -> {1, 2}

\* A key is either absent (the empty sequence) or present with one value.
OptionalParam(k) == {<< >>} \cup { <<v>> : v \in ParamVals(k) }

\* The parameter map holding exactly the keys that are present in c.
ParamMapOf(c) == [k \in {j \in Keys : c[j] # << >>} |-> c[k][1]]

ParamMaps ==
    { ParamMapOf([saSeed |-> a, saRandomSeed |-> b, saMaxCoolingIter |-> c,
                  saInitTemp |-> d, saCoolingFactor |-> e,
                  saStepLengthFactor |-> f]) :
        a \in OptionalParam("saSeed"), b \in OptionalParam("saRandomSeed"),
        c \in OptionalParam("saMaxCoolingIter"),
        d \in OptionalParam("saInitTemp"),
        e \in OptionalParam("saCoolingFactor"),
        f \in OptionalParam("saStepLengthFactor") }

ObjFuns == {"negSq", "sum"}

\* objFun_(state): the objective functions the module is run on.
ObjFunValue(f, x) ==
    IF f = "negSq"
    THEN 0 - SumSeq([i \in 1 .. Len(x) |-> x[i] * x[i]])
    ELSE SumSeq(x)

Guesses == UNION { [1 .. n -> {0, 1}] : n \in 1 .. MaxDim }

(***************************************************************************)
(* The random engine and the two distributions.                            *)
(***************************************************************************)
DefaultRngState == 1

\* One step of the engine (a Lehmer generator, in miniature).
RngNext(x) == (3 * x) % 31

\* What seeding the engine with s would make its state.
RngSeeded(s) == IF s % 31 = 0 THEN 1 ELSE s % 31

RECURSIVE RngAfter(_, _)
RngAfter(x, k) == IF k = 0 THEN x ELSE RngAfter(RngNext(x), k - 1)

\* candGenDistr_(rng_): a symmetric step in {-1, 0, 1}.
GenDraw(x) == (x % 3) - 1

\* candAccDistr_(rng_): r in {0, 1/4, 2/4, 3/4}, as the numerator.
AccDraw(x) == x % 4

\* 10000 * ln(r/4) for r = 1, 2, 3, rounded.
LnQuarter(r) == CASE r = 1 -> -13863 [] r = 2 -> -6931 [] r = 3 -> -2877

(***************************************************************************)
(* SimulatedAnnealingModule::setParams                                     *)
(***************************************************************************)
Has(p, k) == k \in DOMAIN p

RequiredKeysWithoutStepLength ==
    << "saMaxCoolingIter", "saInitTemp", "saCoolingFactor" >>

\* The keys without which setParams aborts, in the order it looks for them.
RequiredKeys == << "saMaxCoolingIter", "saInitTemp", "saCoolingFactor",
                   "saStepLengthFactor" >>

\* The first required key absent from p (0: none is absent).
FirstMissing(p) ==
    LET miss == { i \in 1 .. Len(RequiredKeys) : ~Has(p, RequiredKeys[i]) }
    IN  IF miss = {} THEN 0
        ELSE CHOOSE i \in miss : \A j \in miss : i <= j

\* Whether setParams reaches (and executes) the assignment from key k.
ReachesKey(p, k) ==
    /\ Has(p, k)
    /\ \/ k = "saSeed"
       \/ \E i \in 1 .. Len(RequiredKeys) :
            /\ RequiredKeys[i] = k
            /\ (FirstMissing(p) = 0 \/ i < FirstMissing(p))

InitTempOf(v) == Rat(v, 1)
CoolingFactorOf(v) == Rat(v, 2)

SetParams(p) ==
    /\ phase = "setup"
    /\ "setParams" \notin called
    /\ params' = p
    /\ seed_' = IF ReachesKey(p, "saSeed") THEN p["saSeed"] ELSE seed_
    /\ maxCoolingIter_' = IF ReachesKey(p, "saMaxCoolingIter")
                          THEN p["saMaxCoolingIter"] ELSE maxCoolingIter_
    /\ temp_' = IF ReachesKey(p, "saInitTemp")
                THEN InitTempOf(p["saInitTemp"]) ELSE temp_
    /\ coolingFactor_' = IF ReachesKey(p, "saCoolingFactor")
                         THEN CoolingFactorOf(p["saCoolingFactor"])
                         ELSE coolingFactor_
    /\ stepLengthFactor_' = IF ReachesKey(p, "saStepLengthFactor")
                            THEN p["saStepLengthFactor"] ELSE stepLengthFactor_
    /\ assigned' = assigned \cup { k \in Keys : ReachesKey(p, k) }
    /\ called' = called \cup {"setParams"}
    /\ phase' = IF FirstMissing(p) = 0 THEN "setup" ELSE "aborted"
    /\ UNCHANGED << objFun_, stateDim_, crntState_, candState_, bestState_,
                    crntCost_, candCost_, bestCost_, rng_, nCoolingIter,
                    initGuess, trace, result >>
    /\ UNCHANGED << frVars, agVars, mpVars, bsVars, ssVars,
                    hpVars, iaVars, woVars >>

(***************************************************************************)
(* setObjFun, setInitGuess                                                 *)
(***************************************************************************)
SetObjFun(f) ==
    /\ phase = "setup"
    /\ "setObjFun" \notin called
    /\ objFun_' = f
    /\ called' = called \cup {"setObjFun"}
    /\ UNCHANGED << phase, params, assigned, seed_, maxCoolingIter_, temp_,
                    coolingFactor_, stepLengthFactor_, stateDim_, crntState_,
                    candState_, bestState_, crntCost_, candCost_, bestCost_,
                    rng_, nCoolingIter, initGuess, trace, result >>
    /\ UNCHANGED << frVars, agVars, mpVars, bsVars, ssVars,
                    hpVars, iaVars, woVars >>

SetInitGuess(guess) ==
    /\ phase = "setup"
    /\ "setInitGuess" \notin called
    /\ stateDim_' = Len(guess)
    /\ crntState_' = guess
    /\ candState_' = guess
    /\ bestState_' = guess
    /\ initGuess' = guess
    /\ called' = called \cup {"setInitGuess"}
    /\ UNCHANGED << phase, params, assigned, seed_, maxCoolingIter_, temp_,
                    coolingFactor_, stepLengthFactor_, objFun_, crntCost_,
                    candCost_, bestCost_, rng_, nCoolingIter, trace, result >>
    /\ UNCHANGED << frVars, agVars, mpVars, bsVars, ssVars,
                    hpVars, iaVars, woVars >>

(***************************************************************************)
(* optimise -> anneal: the cost of the initial states, then the loop.      *)
(***************************************************************************)
Optimise ==
    /\ phase = "setup"
    /\ called = {"setParams", "setObjFun", "setInitGuess"}
    /\ crntCost_' = ObjFunValue(objFun_, crntState_)
    /\ candCost_' = ObjFunValue(objFun_, candState_)
    /\ bestCost_' = ObjFunValue(objFun_, bestState_)
    /\ nCoolingIter' = 0
    /\ phase' = "loop"
    /\ UNCHANGED << called, params, assigned, seed_, maxCoolingIter_, temp_,
                    coolingFactor_, stepLengthFactor_, objFun_, stateDim_,
                    crntState_, candState_, bestState_, rng_, initGuess,
                    trace, result >>
    /\ UNCHANGED << frVars, agVars, mpVars, bsVars, ssVars,
                    hpVars, iaVars, woVars >>

TempResetOnOptimise(temp, p) == InitTempOf(p["saInitTemp"])

\* optimise() and anneal() hold no assignment to temp_: a run starts at the
\* temperature the module has.
TempOnOptimise(temp, p) == temp

\* optimise() called on a module whose run has ended, with no setter called
\* in between: anneal() evaluates the three states again and the loop
\* starts over with its counter at 0.  The model follows one such call.
OptimiseAgain ==
    /\ phase = "done"
    /\ Len(trace) = nCoolingIter
    /\ crntCost_' = ObjFunValue(objFun_, crntState_)
    /\ candCost_' = ObjFunValue(objFun_, candState_)
    /\ bestCost_' = ObjFunValue(objFun_, bestState_)
    /\ temp_' = TempOnOptimise(temp_, params)
    /\ nCoolingIter' = 0
    /\ phase' = "loop"
    /\ UNCHANGED << called, params, assigned, seed_, maxCoolingIter_,
                    coolingFactor_, stepLengthFactor_, objFun_, stateDim_,
                    crntState_, candState_, bestState_, rng_, initGuess,
                    trace, result >>
    /\ UNCHANGED << frVars, agVars, mpVars, bsVars, ssVars,
                    hpVars, iaVars, woVars >>

(***************************************************************************)
(* One pass through the body of annealIsotropic's loop.                    *)
(***************************************************************************)
GenerateCandidateFromCandidate(crnt, cand, dim, step, rng) ==
    [i \in 1 .. Len(cand) |->
        IF i <= dim THEN cand[i] + step * GenDraw(RngAfter(rng, i))
        ELSE cand[i]]

\* generateCandidateStateIsotropic: stateDim_ draws, one per component.
GenerateCandidateStateIsotropic(crnt, cand, dim, step, rng) ==
    [i \in 1 .. Len(cand) |->
        IF i <= dim THEN crnt[i] + step * GenDraw(RngAfter(rng, i))
        ELSE cand[i]]

\* acceptCandidateState, with r the uniform draw (in quarters):
\*   accProb = min(exp((candCost - crntCost)/temp), 1);  return r < accProb.
\* temp = 0 divides by zero: +inf accepts, -inf gives exp = 0, 0/0 is NaN
\* and compares false.  exp underflows to 0 below about -104.
AcceptCandidateState(candCost, crntCost, temp, r) ==
    LET d == candCost - crntCost
        p == IF temp.n > 0 THEN d * temp.d ELSE (0 - d) * temp.d
        q == Abs(temp.n)
    IN  IF temp.n = 0 THEN d > 0
        ELSE IF p >= 0 THEN TRUE
        ELSE IF p < (0 - 104) * q THEN FALSE
        ELSE IF r = 0 THEN TRUE
        ELSE p * 10000 > LnQuarter(r) * q

IsNewBestWhenLower(candCost, bestCost) == candCost < bestCost

\* "is new state also the best state?"
IsNewBest(candCost, bestCost) == candCost > bestCost

BestStateOnEveryAcceptance(acc, best, cand, old) == IF acc THEN cand ELSE old

\* bestState_ = candState_, inside both tests.
BestStateAfter(acc, best, cand, old) == IF best THEN cand ELSE old

CoolTwice(temp, factor) == RatMul(RatMul(temp, factor), factor)

\* cool(): temp_ *= coolingFactor_
Cool(temp, factor) == RatMul(temp, factor)

\* "maximum step number reached?"
MaxStepReached(n, maxIter) == n >= maxIter

AnnealIteration ==
    /\ phase = "loop"
    /\ LET cand == GenerateCandidateStateIsotropic(crntState_, candState_,
                        stateDim_, stepLengthFactor_, rng_)
           rng1 == RngAfter(rng_, stateDim_)
           cost == ObjFunValue(objFun_, cand)
           rng2 == RngNext(rng1)
           acc  == AcceptCandidateState(cost, crntCost_, temp_, AccDraw(rng2))
           best == acc /\ IsNewBest(cost, bestCost_)
       IN  /\ candState_' = cand
           /\ candCost_' = cost
           /\ rng_' = rng2
           /\ crntState_' = IF acc THEN cand ELSE crntState_
           /\ crntCost_' = IF acc THEN cost ELSE crntCost_
           /\ bestState_' = BestStateAfter(acc, best, cand, bestState_)
           /\ bestCost_' = IF best THEN cost ELSE bestCost_
           /\ temp_' = Cool(temp_, coolingFactor_)
           /\ nCoolingIter' = nCoolingIter + 1
           /\ phase' = IF MaxStepReached(nCoolingIter + 1, maxCoolingIter_)
                       THEN "done" ELSE "loop"
           /\ trace' = Append(trace,
                  [from |-> crntState_, fromCost |-> crntCost_,
                   cand |-> cand, candCost |-> cost,
                   r |-> AccDraw(rng2), temp |-> temp_, accepted |-> acc,
                   bestBefore |-> bestCost_, newBest |-> best,
                   bestAfter |-> IF best THEN cost ELSE bestCost_])
    /\ UNCHANGED << called, params, assigned, seed_, maxCoolingIter_,
                    coolingFactor_, stepLengthFactor_, objFun_, stateDim_,
                    initGuess, result >>
    /\ UNCHANGED << frVars, agVars, mpVars, bsVars, ssVars,
                    hpVars, iaVars, woVars >>

(***************************************************************************)
(* getOptimPoint                                                           *)
(***************************************************************************)
GetOptimPoint ==
    /\ phase = "done"
    /\ result' = << [first |-> bestState_, second |-> bestCost_] >>
    /\ UNCHANGED << phase, called, params, assigned, seed_, maxCoolingIter_,
                    temp_, coolingFactor_, stepLengthFactor_, objFun_,
                    stateDim_, crntState_, candState_, bestState_, crntCost_,
                    candCost_, bestCost_, rng_, nCoolingIter, initGuess,
                    trace >>
    /\ UNCHANGED << frVars, agVars, mpVars, bsVars, ssVars,
                    hpVars, iaVars, woVars >>

\* The module after its constructor: nothing is set; the fields that the
\* constructor leaves indeterminate are never read before they are assigned.
SaInit ==
    /\ phase = "setup"
    /\ called = {}
    /\ params = << >>
    /\ assigned = {}
    /\ seed_ = 0
    /\ maxCoolingIter_ = 0
    /\ temp_ = Rat(0, 1)
    /\ coolingFactor_ = Rat(0, 1)
    /\ stepLengthFactor_ = 0
    /\ objFun_ = "negSq"
    /\ stateDim_ = 0
    /\ crntState_ = << >>
    /\ candState_ = << >>
    /\ bestState_ = << >>
    /\ crntCost_ = 0
    /\ candCost_ = 0
    /\ bestCost_ = 0
    /\ rng_ = DefaultRngState
    /\ nCoolingIter = 0
    /\ initGuess = << >>
    /\ trace = << >>
    /\ result = << >>

SaNext ==
    \/ phase = "setup" /\ "setParams" \notin called
                       /\ \E p \in ParamMaps : SetParams(p)
    \/ phase = "setup" /\ \E f \in ObjFuns : SetObjFun(f)
    \/ phase = "setup" /\ \E g \in Guesses : SetInitGuess(g)
    \/ Optimise
    \/ AnnealIteration
    \/ GetOptimPoint

(***************************************************************************)
(* trajectoryAnalysis::analyzeFrame, one task per frame.  The steps are    *)
(* the places where a frame reads or writes a member of the analysis       *)
(* object, a file, or its data handle.                                     *)
(***************************************************************************)
MaxFrames == 2

Frames == 0 .. MaxFrames - 1

\* The data sets a frame adds to its handle (solvent selection given).
FrameDataSets == 0 .. 8

\* The atoms of a selection in frame f: mass and position (one coordinate).
SelectionAtoms(sel, f) ==
    IF sel = "ippsel"
    THEN << [mass |-> 2, x |-> 30 + f], [mass |-> 1, x |-> 33 + f] >>
    ELSE << [mass |-> 1, x |-> 10 + f], [mass |-> 3, x |-> 14 + f] >>

TotalMass(atoms) == SumSeq([i \in 1 .. Len(atoms) |-> atoms[i].mass])
MassMoment(atoms) ==
    SumSeq([i \in 1 .. Len(atoms) |-> atoms[i].mass * atoms[i].x])

\* Mass-weighted centre of a selection in frame f: the sum of mass times
\* position, divided by the total mass.
CentreOfMass(sel, f) ==
    RatDiv(RatOfInt(MassMoment(SelectionAtoms(sel, f))),
           RatOfInt(TotalMass(SelectionAtoms(sel, f))))

InitPosSelectionAlwaysReference(c) == "refsel"

\* tmpsel: pf-sel-ipp if it was set, the pathway-defining group if not.
InitPosSelection(c) == IF c.ippselIsSet = TRUE THEN "ippsel" ELSE "refsel"

\* The value of pf-init-probe-pos when it is given.
ExplicitInitProbePos == RatOfInt(5)

\* bwe.estimate(solventPoreCoordS) in frame f.
AmiseBandWidth(f) == 20 + f

StartFrameNumberConstant(frnr) == 0

\* The frame number a task registers its frame under: startFrame(frnr, ..).
StartFrameNumber(frnr) == frnr

FrInit ==
    /\ cfg \in [pfInitProbePosIsSet : BOOLEAN, ippselIsSet : BOOLEAN,
                bandWidthAuto : BOOLEAN]
    /\ frPc = [f \in Frames |-> "idle"]
    /\ pfInitProbePos_ = IF cfg.pfInitProbePosIsSet THEN ExplicitInitProbePos
                         ELSE RatOfInt(0)
    /\ deBandWidthParam = IF cfg.bandWidthAuto THEN 0 ELSE 1
    /\ objFile = << >>
    /\ frLocal = [f \in Frames |->
                    [key |-> 0, initProbePos |-> RatOfInt(0), bandWidth |-> 0]]
    /\ frData = [f \in Frames |-> {}]
    /\ frOrder = << >>
    /\ streamFile = << >>

\* dhFrameStream.startFrame(frnr, fr.time)
StartFrame(f) ==
    /\ frPc[f] = "idle"
    /\ frLocal' = [frLocal EXCEPT ![f].key = StartFrameNumber(f)]
    /\ frPc' = [frPc EXCEPT ![f] = "ipp"]
    /\ UNCHANGED << cfg, pfInitProbePos_, deBandWidthParam, objFile, frData,
                    frOrder, streamFile >>
    /\ UNCHANGED << saVars, agVars, mpVars, bsVars, ssVars,
                    hpVars, iaVars, woVars >>

\* "recalculate initial probe position based on reference group COG"
UpdateInitProbePos(f) ==
    /\ frPc[f] = "ipp"
    /\ pfInitProbePos_' = IF cfg.pfInitProbePosIsSet THEN pfInitProbePos_
                          ELSE CentreOfMass(InitPosSelection(cfg), f)
    /\ frPc' = [frPc EXCEPT ![f] = "pf"]
    /\ UNCHANGED << cfg, deBandWidthParam, objFile, frLocal, frData, frOrder,
                    streamFile >>
    /\ UNCHANGED << saVars, agVars, mpVars, bsVars, ssVars,
                    hpVars, iaVars, woVars >>

\* RVec initProbePos(pfInitProbePos_[0], ..); path finding; residue and
\* solvent mapping: data sets 1, 2, 3, 7, 8, 5.
FindPath(f) ==
    /\ frPc[f] = "pf"
    /\ frLocal' = [frLocal EXCEPT ![f].initProbePos = pfInitProbePos_]
    /\ frData' = [frData EXCEPT ![f] = @ \cup {1, 2, 3, 5, 7, 8}]
    /\ frPc' = [frPc EXCEPT ![f] = "bw"]
    /\ UNCHANGED << cfg, pfInitProbePos_, deBandWidthParam, objFile, frOrder,
                    streamFile >>
    /\ UNCHANGED << saVars, agVars, mpVars, bsVars, ssVars,
                    hpVars, iaVars, woVars >>

\* deParams_.setBandWidth( bwe.estimate(solventPoreCoordS) )
EstimateBandWidth(f) ==
    /\ frPc[f] = "bw"
    /\ deBandWidthParam' = IF cfg.bandWidthAuto THEN AmiseBandWidth(f)
                           ELSE deBandWidthParam
    /\ frPc' = [frPc EXCEPT ![f] = "de"]
    /\ UNCHANGED << cfg, pfInitProbePos_, objFile, frLocal, frData, frOrder,
                    streamFile >>
    /\ UNCHANGED << saVars, agVars, mpVars, bsVars, ssVars,
                    hpVars, iaVars, woVars >>

\* densityEstimator -> setParameters(deParams_); estimate; data sets 6, 0, 4.
EstimateDensity(f) ==
    /\ frPc[f] = "de"
    /\ frLocal' = [frLocal EXCEPT ![f].bandWidth = deBandWidthParam]
    /\ frData' = [frData EXCEPT ![f] = @ \cup {0, 4, 6}]
    /\ frPc' = [frPc EXCEPT ![f] = "obj"]
    /\ UNCHANGED << cfg, pfInitProbePos_, deBandWidthParam, objFile, frOrder,
                    streamFile >>
    /\ UNCHANGED << saVars, agVars, mpVars, bsVars, ssVars,
                    hpVars, iaVars, woVars >>

\* molPathExp(outputObjFileName_.c_str(), molPath): every frame writes the
\* same file.  objFile lists the frames that wrote it, the last one last.
WriteObj(f) ==
    /\ frPc[f] = "obj"
    /\ objFile' = Append(objFile, f)
    /\ frPc' = [frPc EXCEPT ![f] = "fin"]
    /\ UNCHANGED << cfg, pfInitProbePos_, deBandWidthParam, frLocal, frData,
                    frOrder, streamFile >>
    /\ UNCHANGED << saVars, agVars, mpVars, bsVars, ssVars,
                    hpVars, iaVars, woVars >>

\* The record of a finished frame as the data object holds it.
FrameRecord(f, local, data) ==
    [frame |-> local[f].key, of |-> f, sets |-> data[f]]

\* The exporter attached to frameStreamData_: finished frames are written
\* in frame order, each as soon as all frames before it are written.
RECURSIVE ExportReady(_, _)
ExportReady(stream, recs) ==
    IF \E r \in recs : r.frame = Len(stream)
    THEN ExportReady(
            Append(stream, CHOOSE r \in recs : r.frame = Len(stream)), recs)
    ELSE stream

\* dhFrameStream.finishFrame()
FinishFrame(f) ==
    /\ frPc[f] = "fin"
    /\ frOrder' = Append(frOrder, f)
    /\ streamFile' = ExportReady(streamFile,
            { FrameRecord(g, frLocal, frData) :
                g \in { h \in Frames : frPc[h] = "done" } \cup {f} })
    /\ frPc' = [frPc EXCEPT ![f] = "done"]
    /\ UNCHANGED << cfg, pfInitProbePos_, deBandWidthParam, objFile, frLocal,
                    frData >>
    /\ UNCHANGED << saVars, agVars, mpVars, bsVars, ssVars,
                    hpVars, iaVars, woVars >>

FrNext ==
    \E f \in Frames :
        \/ StartFrame(f)
        \/ UpdateInitProbePos(f)
        \/ FindPath(f)
        \/ EstimateBandWidth(f)
        \/ EstimateDensity(f)
        \/ WriteObj(f)
        \/ FinishFrame(f)

\* analyzeFrame called for one frame after the other.
FrNextSerial ==
    \E f \in Frames :
        /\ \A g \in Frames \ {f} : frPc[g] \in {"idle", "done"}
        /\ \/ StartFrame(f)
           \/ UpdateInitProbePos(f)
           \/ FindPath(f)
           \/ EstimateBandWidth(f)
           \/ EstimateDensity(f)
           \/ WriteObj(f)
           \/ FinishFrame(f)

\* No frame is being analysed.
FrIdle ==
    /\ cfg = [pfInitProbePosIsSet |-> TRUE, ippselIsSet |-> FALSE,
              bandWidthAuto |-> FALSE]
    /\ frPc = [f \in Frames |-> "idle"]
    /\ pfInitProbePos_ = ExplicitInitProbePos
    /\ deBandWidthParam = 1
    /\ objFile = << >>
    /\ frLocal = [f \in Frames |->
                    [key |-> 0, initProbePos |-> RatOfInt(0), bandWidth |-> 0]]
    /\ frData = [f \in Frames |-> {}]
    /\ frOrder = << >>
    /\ streamFile = << >>

(***************************************************************************)
(* SummaryStatistics: Welford's online algorithm on exact fractions.       *)
(***************************************************************************)
SsEmpty ==
    [num |-> 0, mean |-> RatOfInt(0), m2 |-> RatOfInt(0),
     min |-> NotFinite, max |-> NotFinite]

\* update(x)
SsUpdate(s, x) ==
    LET n == s.num + 1
        delta == RatSub(x, s.mean)
        mean == RatAdd(s.mean, RatDiv(delta, RatOfInt(n)))
    IN  [num |-> n,
         mean |-> mean,
         m2 |-> RatAdd(s.m2, RatMul(delta, RatSub(x, mean))),
         min |-> IF s.num = 0 THEN x ELSE RatMin(s.min, x),
         max |-> IF s.num = 0 THEN x ELSE RatMax(s.max, x)]

SsShiftMeanOnly(s, c) == [s EXCEPT !.mean = RatAdd(@, c)]

\* shift(c)
SsShift(s, c) ==
    [s EXCEPT !.mean = RatAdd(@, c), !.min = RatAdd(@, c), !.max = RatAdd(@, c)]

\* var(): the sum of squared deviations over num - 1.
SsVar(s) == IF s.num < 2 THEN RatOfInt(0) ELSE RatDiv(s.m2, RatOfInt(s.num - 1))

\* One object, driven by any sequence of update(x) and shift(c).
MaxOps == 4
UpdateValues == {-1, 0, 2}
ShiftValues == {-1, 1}

SsDoUpdate(x) ==
    /\ Len(ssOps) < MaxOps
    /\ ssObj' = SsUpdate(ssObj, RatOfInt(x))
    /\ ssOps' = Append(ssOps, [op |-> "update", arg |-> x])
    /\ UNCHANGED << saVars, frVars, agVars, mpVars, bsVars,
                    hpVars, iaVars, woVars >>

SsDoShift(c) ==
    /\ Len(ssOps) < MaxOps
    /\ ssObj' = SsShift(ssObj, RatOfInt(c))
    /\ ssOps' = Append(ssOps, [op |-> "shift", arg |-> c])
    /\ UNCHANGED << saVars, frVars, agVars, mpVars, bsVars,
                    hpVars, iaVars, woVars >>

SsNext ==
    \/ \E x \in UpdateValues : SsDoUpdate(x)
    \/ \E c \in ShiftValues : SsDoShift(c)

\* A new object, on which nothing has been called.
SsIdle ==
    /\ ssObj = SsEmpty
    /\ ssOps = << >>

(***************************************************************************)
(* trajectoryAnalysis::finishAnalysis: the passes over the per-frame       *)
(* stream file.  A line is a record: ok says whether it parses to a JSON   *)
(* object; length, arcLengthLo and arcLengthHi are its pathSummary values; *)
(* energy gives the energy sample the line yields on the support points,   *)
(* anchorLo and anchorHi the energies interpolated at the anchor points,   *)
(* timeStamp is its pathSummary time stamp and resS the arc length         *)
(* coordinates of its residuePositions.                                    *)
(***************************************************************************)
MaxLines == 3
MaxProfileLines == 2

\* Every line of a stream names the same residues; a frame's time stamp
\* is told apart by its length value.
ResidueArcs == << 1, 3 >>
TimeStampOf(length) == 10 * length

Line(ok, length, lo, hi, energy, anchorLo, anchorHi) ==
    [ok |-> ok, length |-> length, arcLengthLo |-> lo, arcLengthHi |-> hi,
     energy |-> energy, anchorLo |-> anchorLo, anchorHi |-> anchorHi,
     timeStamp |-> TimeStampOf(length), resS |-> ResidueArcs]

GoodLines == { Line(TRUE, v, 0, 3, 0, 0, 0) : v \in {1, 2} }
BadLine == Line(FALSE, 0, 0, 0, 0, 0, 0)
Lines == GoodLines \cup {BadLine}

StreamFiles == UNION { [1 .. n -> Lines] : n \in 0 .. MaxLines }

\* Readable lines whose arc length range and energies vary.
Energies == { <<0, 0, 0>>, <<1, 0, 2>>, <<2, 3, 1>> }
ProfileLines ==
    { Line(TRUE, 1, lo, hi, e[1], e[2], e[3]) :
        lo \in {0, 1}, hi \in {2, 3}, e \in Energies }

ProfileFiles == UNION { [1 .. n -> ProfileLines] : n \in 0 .. MaxProfileLines }

\* Values of out-num-points and out-extrap-dist.
OutputNumPoints == {1, 2, 3}
OutputExtrapDists == {0, 1}

Passes == 1 .. 3

\* The lines std::getline yields in pass k: none when the open failed.
StreamSeen(k) == IF streamOpens[k] THEN inFileLines ELSE << >>

LineIsObjectUnchecked(line) == TRUE

\* lineDoc.IsObject()
LineIsObject(line) == line.ok

\* lineDoc["pathSummary"]["arcLengthHi"][0].GetDouble()
PathSummaryArcLengthHi(line) == RatOfInt(line.arcLengthHi)

PathSummaryLengthFromArcLengthHi(line) == RatOfInt(line.arcLengthHi)

\* lineDoc["pathSummary"]["length"][0].GetDouble()
PathSummaryLength(line) == RatOfInt(line.length)

TimeStampsAfterPrepend(stamps, line) == << line.timeStamp >> \o stamps

\* timeStamps.push_back(lineDoc["pathSummary"]["timeStamp"][0].GetDouble())
TimeStampsAfter(stamps, line) == Append(stamps, line.timeStamp)

\* lineDoc["residuePositions"]["resId"].Size()
ResIdSize(line) == Len(line.resS)

\* lineDoc["residuePositions"]["s"][i].GetDouble(), i counted from 1.
ResidueS(line, i) == RatOfInt(line.resS[i])

\* energySample.at(i) of the line, i counted from 1.
EnergySample(line, i) == RatOfInt(line.energy * i)

\* The support points built from the range and the number of points.
SupportPoints(lo, hi, numSupportPoints) ==
    LET supportPointsStep ==
            RatDiv(RatSub(hi, lo), RatOfInt(numSupportPoints - 1))
    IN  [i \in 1 .. numSupportPoints |->
            RatAdd(lo, RatMul(RatOfInt(i - 1), supportPointsStep))]

\* anchorPointLo = arcLengthLoSummary.min(), anchorPointHi =
\* arcLengthHiSummary.max(): where the energy is set to zero.
AnchorPointLo(arcLengthLo) == arcLengthLo.min
AnchorPointHi(arcLengthHi) == arcLengthHi.max

EnergyShiftFromLowAnchor(lo, hi) == RatSub(RatOfInt(0), lo.mean)

\* shift = -0.5*(anchorEnergyLo.mean() + anchorEnergyHi.mean())
EnergyShift(lo, hi) == RatMul(Rat(0 - 1, 2), RatAdd(lo.mean, hi.mean))

\* The locals of finishAnalysis at its entry.
AgLocals ==
    /\ linesRead = 0
    /\ linesProcessed = 0
    /\ lengthTimeSeries = << >>
    /\ radiusTimeSeries = << >>
    /\ agError = ""
    /\ pdbFile = FALSE
    /\ outFile = [results |-> FALSE, lines |-> << >>]
    /\ linesCopied = 0
    /\ streamRemoved = FALSE
    /\ lengthSummary = SsEmpty
    /\ arcLengthLoSummary = SsEmpty
    /\ arcLengthHiSummary = SsEmpty
    /\ supportPoints = << >>
    /\ anchorEnergyLo = SsEmpty
    /\ anchorEnergyHi = SsEmpty
    /\ energySummary = << >>
    /\ timeStamps = << >>
    /\ numPoreRes = 0
    /\ residueArcSummary = << >>

AgInit ==
    /\ agPc = "pass1"
    /\ inFileLines \in StreamFiles
    /\ numFrames \in 0 .. MaxLines
    /\ streamOpens \in [Passes -> BOOLEAN]
    /\ outputNumPoints_ \in OutputNumPoints
    /\ outputExtrapDist_ \in OutputExtrapDists
    /\ AgLocals

\* finishAnalysis called with the number of frames the stream holds, every
\* line readable.
AgInitProfile ==
    /\ agPc = "pass1"
    /\ inFileLines \in ProfileFiles
    /\ numFrames = Len(inFileLines)
    /\ streamOpens = [k \in Passes |-> TRUE]
    /\ outputNumPoints_ \in OutputNumPoints
    /\ outputExtrapDist_ \in OutputExtrapDists
    /\ AgLocals

\* First pass, one turn of  while( std::getline(inFile, line) ).
Pass1Line ==
    /\ agPc = "pass1"
    /\ linesRead < Len(StreamSeen(1))
    /\ LET line == StreamSeen(1)[linesRead + 1]
       IN  IF ~LineIsObject(line)
           THEN /\ agPc' = "failed"
                /\ agError' = "notJsonObject"
                /\ UNCHANGED << linesRead, lengthTimeSeries, agPass1Stats >>
           ELSE /\ lengthSummary' = SsUpdate(lengthSummary, PathSummaryLength(line))
                /\ arcLengthLoSummary' =
                      SsUpdate(arcLengthLoSummary, RatOfInt(line.arcLengthLo))
                /\ arcLengthHiSummary' =
                      SsUpdate(arcLengthHiSummary, PathSummaryArcLengthHi(line))
                /\ timeStamps' = TimeStampsAfter(timeStamps, line)
                /\ lengthTimeSeries' = Append(lengthTimeSeries, line.length)
                /\ numPoreRes' = IF linesRead = 0 THEN ResIdSize(line)
                                                  ELSE numPoreRes
                /\ linesRead' = linesRead + 1
                /\ UNCHANGED << agPc, agError >>
    /\ UNCHANGED << inFileLines, numFrames, linesProcessed, radiusTimeSeries >>
    /\ UNCHANGED << streamOpens, agOutVars, agOptions, supportPoints,
                    agPass2Stats >>
    /\ UNCHANGED << saVars, frVars, mpVars, bsVars, ssVars,
                    hpVars, iaVars, woVars >>

\* End of the first pass:  if( linesRead != numFrames ) throw;  then the
\* support points and the containers of the second pass.
Pass1End ==
    /\ agPc = "pass1"
    /\ linesRead = Len(StreamSeen(1))
    /\ IF linesRead # numFrames
       THEN /\ agPc' = "failed"
            /\ agError' = "linesRead"
            /\ UNCHANGED << supportPoints, energySummary, residueArcSummary >>
       ELSE /\ agPc' = "pass2"
            /\ supportPoints' =
                  SupportPoints(
                      RatSub(arcLengthLoSummary.min, RatOfInt(outputExtrapDist_)),
                      RatAdd(arcLengthHiSummary.max, RatOfInt(outputExtrapDist_)),
                      outputNumPoints_)
            /\ energySummary' = [i \in 1 .. outputNumPoints_ |-> SsEmpty]
            /\ residueArcSummary' = [i \in 1 .. numPoreRes |-> SsEmpty]
            /\ UNCHANGED agError
    /\ UNCHANGED << inFileLines, numFrames, linesRead, linesProcessed,
                    lengthTimeSeries, radiusTimeSeries >>
    /\ UNCHANGED << streamOpens, agOutVars, agOptions, agPass1Stats,
                    anchorEnergyLo, anchorEnergyHi >>
    /\ UNCHANGED << saVars, frVars, mpVars, bsVars, ssVars,
                    hpVars, iaVars, woVars >>

\* Second pass, one turn of its loop.
Pass2Line ==
    /\ agPc = "pass2"
    /\ linesProcessed < Len(StreamSeen(2))
    /\ LET line == StreamSeen(2)[linesProcessed + 1]
       IN  IF ~LineIsObject(line)
           THEN /\ agPc' = "failed"
                /\ agError' = "notJsonObject"
                /\ UNCHANGED << linesProcessed, radiusTimeSeries, agPass2Stats >>
           ELSE /\ radiusTimeSeries' = Append(radiusTimeSeries, line.length)
                /\ energySummary' =
                      [i \in 1 .. Len(energySummary) |->
                          SsUpdate(energySummary[i], EnergySample(line, i))]
                /\ anchorEnergyLo' =
                      SsUpdate(anchorEnergyLo, RatOfInt(line.anchorLo))
                /\ anchorEnergyHi' =
                      SsUpdate(anchorEnergyHi, RatOfInt(line.anchorHi))
                /\ residueArcSummary' =
                      [i \in 1 .. numPoreRes |->
                          SsUpdate(residueArcSummary[i], ResidueS(line, i))]
                /\ linesProcessed' = linesProcessed + 1
                /\ UNCHANGED << agPc, agError >>
    /\ UNCHANGED << inFileLines, numFrames, linesRead, lengthTimeSeries >>
    /\ UNCHANGED << streamOpens, agOutVars, agOptions, agPass1Stats,
                    supportPoints >>
    /\ UNCHANGED << saVars, frVars, mpVars, bsVars, ssVars,
                    hpVars, iaVars, woVars >>

\* End of the second pass: the shift of the energy profile, then
\* if( linesProcessed != numFrames ) throw.
Pass2End ==
    /\ agPc = "pass2"
    /\ linesProcessed = Len(StreamSeen(2))
    /\ energySummary' =
          [i \in 1 .. Len(energySummary) |->
              SsShift(energySummary[i], EnergyShift(anchorEnergyLo, anchorEnergyHi))]
    /\ IF linesProcessed # numFrames
       THEN agPc' = "failed" /\ agError' = "linesProcessed"
       ELSE agPc' = "output" /\ UNCHANGED agError
    /\ UNCHANGED << inFileLines, numFrames, linesRead, linesProcessed,
                    lengthTimeSeries, radiusTimeSeries >>
    /\ UNCHANGED << streamOpens, agOutVars, agOptions, agPass1Stats,
                    supportPoints, anchorEnergyLo, anchorEnergyHi,
                    residueArcSummary >>
    /\ UNCHANGED << saVars, frVars, mpVars, bsVars, ssVars,
                    hpVars, iaVars, woVars >>

\* What the output steps leave alone.
agPassVars == << inFileLines, numFrames, linesRead, linesProcessed,
                lengthTimeSeries, radiusTimeSeries, streamOpens, agOptions,
                agPass1Stats, supportPoints, agPass2Stats >>

\* PdbIo::write(outputPdbFileName_, outputStructure_)
WritePdb ==
    /\ agPc = "output"
    /\ pdbFile' = TRUE
    /\ agPc' = "results"
    /\ UNCHANGED << agError, outFile, linesCopied, streamRemoved >>
    /\ UNCHANGED << agPassVars, saVars, frVars, mpVars, bsVars,
                    ssVars, hpVars, iaVars, woVars >>

\* results.write(outFileName): the file now holds the results object only.
WriteResults ==
    /\ agPc = "results"
    /\ outFile' = [results |-> TRUE, lines |-> << >>]
    /\ agPc' = "copy"
    /\ UNCHANGED << agError, pdbFile, linesCopied, streamRemoved >>
    /\ UNCHANGED << agPassVars, saVars, frVars, mpVars, bsVars,
                    ssVars, hpVars, iaVars, woVars >>

OutFileAfterPrepend(lines, copyLine) == << copyLine >> \o lines

\* outFile<<copyLine<<std::endl, on a file opened with std::fstream::app
OutFileAfterAppend(lines, copyLine) == Append(lines, copyLine)

\* Copy pass, one turn of  while( std::getline(inFile, copyLine) ).
CopyLine ==
    /\ agPc = "copy"
    /\ linesCopied < Len(StreamSeen(3))
    /\ outFile' = [outFile EXCEPT
                      !.lines = OutFileAfterAppend(@, StreamSeen(3)[linesCopied + 1])]
    /\ linesCopied' = linesCopied + 1
    /\ UNCHANGED << agPc, agError, pdbFile, streamRemoved >>
    /\ UNCHANGED << agPassVars, saVars, frVars, mpVars, bsVars,
                    ssVars, hpVars, iaVars, woVars >>

AllLinesCopiedUnchecked(n, frames) == TRUE

\* The negation of  if( linesCopied != numFrames ) throw.
AllLinesCopied(n, frames) == n = frames

\* End of the copy pass: the check, then std::remove(inFileName.c_str()).
CopyEnd ==
    /\ agPc = "copy"
    /\ linesCopied = Len(StreamSeen(3))
    /\ IF AllLinesCopied(linesCopied, numFrames)
       THEN agPc' = "done" /\ streamRemoved' = TRUE /\ UNCHANGED agError
       ELSE agPc' = "failed" /\ agError' = "linesCopied"
                             /\ UNCHANGED streamRemoved
    /\ UNCHANGED << pdbFile, outFile, linesCopied >>
    /\ UNCHANGED << agPassVars, saVars, frVars, mpVars, bsVars,
                    ssVars, hpVars, iaVars, woVars >>

AgNext ==
    \/ Pass1Line
    \/ Pass1End
    \/ Pass2Line
    \/ Pass2End
    \/ WritePdb
    \/ WriteResults
    \/ CopyLine
    \/ CopyEnd

\* finishAnalysis has not been called.
AgIdle ==
    /\ agPc = "idle"
    /\ inFileLines = << >>
    /\ numFrames = 0
    /\ streamOpens = [k \in Passes |-> TRUE]
    /\ outputNumPoints_ = 0
    /\ outputExtrapDist_ = 0
    /\ AgLocals

(***************************************************************************)
(* trajectoryAnalysis::analyzeFrame: which residues are pore-lining and    *)
(* which are pore-facing.  Residues are the keys 1 .. n of the mapped      *)
(* coordinates; the maps of the COG and of the C-alpha have the same keys. *)
(***************************************************************************)
MaxResidues == 2

\* Distances from the centreline a mapped coordinate may have.
RadialDistances == {1, 2}

ResidueMaps(S) == UNION { [1 .. n -> S] : n \in 0 .. MaxResidues }

MpInit ==
    /\ mpPc = "lining"
    /\ poreCogRR \in ResidueMaps(RadialDistances)
    /\ poreCalRR \in [1 .. Len(poreCogRR) -> RadialDistances]
    /\ poreLining \in [1 .. Len(poreCogRR) -> BOOLEAN]
    /\ nPoreLining = 0
    /\ poreFacing = << >>
    /\ nPoreFacing = 0

\* The loop counting the residues checkIfInside found inside the pore.
CountPoreLining ==
    /\ mpPc = "lining"
    /\ nPoreLining' = Cardinality({ i \in 1 .. Len(poreLining) : poreLining[i] })
    /\ mpPc' = "facing"
    /\ UNCHANGED << poreCogRR, poreCalRR, poreLining, poreFacing, nPoreFacing >>
    /\ UNCHANGED << saVars, frVars, agVars, bsVars, ssVars,
                    hpVars, iaVars, woVars >>

IsPoreFacingWhateverLining(cogRR, calRR, lining) == cogRR < calRR

\* "is residue pore lining and has COG closer to centreline than CA?"
IsPoreFacing(cogRR, calRR, lining) == cogRR < calRR /\ lining = TRUE

\* One turn of the loop over poreCogMappedCoords.
PoreFacingStep ==
    /\ mpPc = "facing"
    /\ Len(poreFacing) < Len(poreCogRR)
    /\ LET it == Len(poreFacing) + 1
           facing == IsPoreFacing(poreCogRR[it], poreCalRR[it], poreLining[it])
       IN  /\ poreFacing' = Append(poreFacing, facing)
           /\ nPoreFacing' = IF facing THEN nPoreFacing + 1 ELSE nPoreFacing
    /\ UNCHANGED << mpPc, poreCogRR, poreCalRR, poreLining, nPoreLining >>
    /\ UNCHANGED << saVars, frVars, agVars, bsVars, ssVars,
                    hpVars, iaVars, woVars >>

\* The loop has visited every residue.
PoreFacingEnd ==
    /\ mpPc = "facing"
    /\ Len(poreFacing) = Len(poreCogRR)
    /\ mpPc' = "done"
    /\ UNCHANGED << poreCogRR, poreCalRR, poreLining, nPoreLining, poreFacing,
                    nPoreFacing >>
    /\ UNCHANGED << saVars, frVars, agVars, bsVars, ssVars,
                    hpVars, iaVars, woVars >>

MpNext ==
    \/ CountPoreLining
    \/ PoreFacingStep
    \/ PoreFacingEnd

\* No residues are being classified.
MpIdle ==
    /\ mpPc = "idle"
    /\ poreCogRR = << >>
    /\ poreCalRR = << >>
    /\ poreLining = << >>
    /\ nPoreLining = 0
    /\ poreFacing = << >>
    /\ nPoreFacing = 0

(***************************************************************************)
(* trajectoryAnalysis::analyzeFrame: the input of the hydrophobicity       *)
(* smoother, built once the residues are classified.  A real that is       *)
(* infinite is NotFinite.                                                  *)
(***************************************************************************)
ArcLengths == {0, 1, 3}
BandWidths == {1, 2}

\* resInfo_.hydrophobicity(id)
Hydrophobicity(id) == RatOfInt(id)

HpInit ==
    /\ hpPc = "collect"
    /\ poreCogSS \in [1 .. Len(poreCogRR) -> { RatOfInt(v) : v \in ArcLengths }]
    /\ hpBandWidth_ \in { RatOfInt(v) : v \in BandWidths }
    /\ plResidueCoordS = << >>
    /\ plResidueHydrophobicity = << >>
    /\ pfResidueCoordS = << >>
    /\ pfResidueHydrophobicity = << >>
    /\ minPoreResS = NotFinite
    /\ maxPoreResS = NotFinite

\* The residues among ids, in key order, that flag marks.
RECURSIVE Marked(_, _)
Marked(n, flag) ==
    IF n = 0 THEN << >>
    ELSE IF flag[n] THEN Append(Marked(n - 1, flag), n)
    ELSE Marked(n - 1, flag)

\* The smallest and the largest of the coordinates, from +inf and -inf.
RECURSIVE SmallestCoord(_, _)
SmallestCoord(n, coords) ==
    IF n = 0 THEN NotFinite
    ELSE LET m == SmallestCoord(n - 1, coords)
         IN  IF ~RatFinite(m) \/ RatLess(coords[n], m) THEN coords[n] ELSE m

RECURSIVE LargestCoord(_, _)
LargestCoord(n, coords) ==
    IF n = 0 THEN NotFinite
    ELSE LET m == LargestCoord(n - 1, coords)
         IN  IF ~RatFinite(m) \/ RatLess(m, coords[n]) THEN coords[n] ELSE m

\* The loop over poreCogMappedCoords.
CollectResidues ==
    /\ mpPc = "done"
    /\ hpPc = "collect"
    /\ LET n == Len(poreCogSS)
           pl == Marked(n, poreLining)
           pf == Marked(n, poreFacing)
       IN  /\ plResidueCoordS' = [k \in 1 .. Len(pl) |-> poreCogSS[pl[k]]]
           /\ plResidueHydrophobicity' =
                  [k \in 1 .. Len(pl) |-> Hydrophobicity(pl[k])]
           /\ pfResidueCoordS' = [k \in 1 .. Len(pf) |-> poreCogSS[pf[k]]]
           /\ pfResidueHydrophobicity' =
                  [k \in 1 .. Len(pf) |-> Hydrophobicity(pf[k])]
           /\ minPoreResS' = SmallestCoord(n, poreCogSS)
           /\ maxPoreResS' = LargestCoord(n, poreCogSS)
    /\ hpPc' = "pad"
    /\ UNCHANGED << poreCogSS, hpBandWidth_ >>
    /\ UNCHANGED << saVars, frVars, agVars, mpVars, bsVars,
                    ssVars, iaVars, woVars >>

\* minPoreResS - hpBandWidth_/2.0 and maxPoreResS + hpBandWidth_/2.0
MockCoords(minS, maxS, bandWidth) ==
    << RatSub(minS, RatDiv(bandWidth, RatOfInt(2))),
       RatAdd(maxS, RatDiv(bandWidth, RatOfInt(2))) >>

\* "add mock values at both ends to ensure profile goes to zero smoothly"
AddMockValues ==
    /\ hpPc = "pad"
    /\ LET mock == MockCoords(minPoreResS, maxPoreResS, hpBandWidth_)
       IN  /\ pfResidueCoordS' = pfResidueCoordS \o mock
           /\ pfResidueHydrophobicity' =
                  pfResidueHydrophobicity \o << RatOfInt(0), RatOfInt(0) >>
           /\ plResidueCoordS' = plResidueCoordS \o mock
           /\ plResidueHydrophobicity' =
                  plResidueHydrophobicity \o << RatOfInt(0), RatOfInt(0) >>
    /\ hpPc' = "done"
    /\ UNCHANGED << poreCogSS, hpBandWidth_, minPoreResS, maxPoreResS >>
    /\ UNCHANGED << saVars, frVars, agVars, mpVars, bsVars,
                    ssVars, iaVars, woVars >>

HpNext ==
    \/ MpNext
    \/ CollectResidues
    \/ AddMockValues

\* No smoother input is being prepared.
HpIdle ==
    /\ hpPc = "idle"
    /\ poreCogSS = << >>
    /\ hpBandWidth_ = RatOfInt(0)
    /\ plResidueCoordS = << >>
    /\ plResidueHydrophobicity = << >>
    /\ pfResidueCoordS = << >>
    /\ pfResidueHydrophobicity = << >>
    /\ minPoreResS = NotFinite
    /\ maxPoreResS = NotFinite

(***************************************************************************)
(* trajectoryAnalysis::initAnalysis: the sanity checks of the path mapping *)
(* parameters.  The parameters are what the object holds when initAnalysis *)
(* is entered.                                                             *)
(***************************************************************************)
MappingParamValues == {-1, 0, 1, 2}

IaInit ==
    /\ iaPc = "mapTol"
    /\ mappingParams_ \in [mapTol_ : MappingParamValues,
                           extrapDist_ : MappingParamValues,
                           sampleStep_ : MappingParamValues]
    /\ iaError = ""

\* if( mappingParams_.mapTol_ <= 0.0 ) throw
CheckMapTol ==
    /\ iaPc = "mapTol"
    /\ IF mappingParams_.mapTol_ <= 0
       THEN /\ iaPc' = "failed"
            /\ iaError' = "Mapping tolerance parameter pm-tol must be positive."
       ELSE /\ iaPc' = "extrapDist"
            /\ UNCHANGED iaError
    /\ UNCHANGED mappingParams_
    /\ UNCHANGED << saVars, frVars, agVars, mpVars, bsVars,
                    ssVars, hpVars, woVars >>

\* if( mappingParams_.extrapDist_ <= 0 ) throw
CheckExtrapDist ==
    /\ iaPc = "extrapDist"
    /\ IF mappingParams_.extrapDist_ <= 0
       THEN /\ iaPc' = "failed"
            /\ iaError' = "Extrapolation distance set with pm-extrap-dist may not be negative."
       ELSE /\ iaPc' = "sampleStep"
            /\ UNCHANGED iaError
    /\ UNCHANGED mappingParams_
    /\ UNCHANGED << saVars, frVars, agVars, mpVars, bsVars,
                    ssVars, hpVars, woVars >>

\* if( mappingParams_.sampleStep_ <= 0 ) throw
CheckSampleStep ==
    /\ iaPc = "sampleStep"
    /\ IF mappingParams_.sampleStep_ <= 0
       THEN /\ iaPc' = "failed"
            /\ iaError' = "Sampling step set with pm-sample-step must be positive."
       ELSE /\ iaPc' = "checked"
            /\ UNCHANGED iaError
    /\ UNCHANGED mappingParams_
    /\ UNCHANGED << saVars, frVars, agVars, mpVars, bsVars,
                    ssVars, hpVars, woVars >>

IaNext ==
    \/ CheckMapTol
    \/ CheckExtrapDist
    \/ CheckSampleStep

\* initAnalysis is not running.
IaIdle ==
    /\ iaPc = "idle"
    /\ mappingParams_ = [mapTol_ |-> 1, extrapDist_ |-> 1, sampleStep_ |-> 1]
    /\ iaError = ""

(***************************************************************************)
(* WavefrontObjObject (src/src/io/wavefront_obj_io.cpp): addVertices and   *)
(* scale.  A position is a triple of exact fractions.                      *)
(***************************************************************************)
MaxVertices == 2
MaxScales == 2

Positions == { << 0, 0, 0 >>, << 1, 0, 2 >>, << 3, 1, 0 >> }
ScaleFactors == {-1, 0, 1, 2}

RVec(v) == [c \in 1 .. 3 |-> RatOfInt(v[c])]

\* A new object to which addVertices has handed its vertices.
WoInit ==
    /\ woVertices \in UNION { [1 .. n -> { RVec(v) : v \in Positions }] :
                                n \in 1 .. MaxVertices }
    /\ vertices_ = woVertices
    /\ woFactors = << >>

\* calculateCog(): the sum of the positions over vertices_.size().
CalculateCog(vertices) ==
    [c \in 1 .. 3 |->
        RatDiv(RatSum([i \in 1 .. Len(vertices) |-> vertices[i][c]]),
               RatOfInt(Len(vertices)))]

\* shift(shift): every position plus the vector.
Shift(vertices, shift) ==
    [i \in 1 .. Len(vertices) |->
        [c \in 1 .. 3 |-> RatAdd(vertices[i][c], shift[c])]]

\* (*it)[XX] *= fac, and so for YY and ZZ
Multiplied(vertices, fac) ==
    [i \in 1 .. Len(vertices) |->
        [c \in 1 .. 3 |-> RatMul(vertices[i][c], fac)]]

\* The vector of the second shift: shift[XX] *= -fac
ShiftBack(shift, fac) ==
    [c \in 1 .. 3 |-> RatMul(shift[c], RatSub(RatOfInt(0), fac))]

\* scale(fac)
Scale(fac) ==
    /\ vertices_ # << >>
    /\ Len(woFactors) < MaxScales
    /\ LET cog == CalculateCog(vertices_)
           shift == [c \in 1 .. 3 |-> RatSub(RatOfInt(0), cog[c])]
           centred == Shift(vertices_, shift)
           scaled == Multiplied(centred, RatOfInt(fac))
       IN  vertices_' = Shift(scaled, ShiftBack(shift, RatOfInt(fac)))
    /\ woFactors' = Append(woFactors, fac)
    /\ UNCHANGED woVertices
    /\ UNCHANGED << saVars, frVars, agVars, mpVars, bsVars, ssVars, hpVars,
                    iaVars >>

WoNext == \E fac \in ScaleFactors : Scale(fac)

\* No object exists.
WoIdle ==
    /\ vertices_ = << >>
    /\ woVertices = << >>
    /\ woFactors = << >>

(***************************************************************************)
(* BasisSpline: the basis functions B_{i,k} over a clamped knot vector, by *)
(* the Cox-de Boor recursion; knots and points are exact fractions.  The   *)
(* basis index i counts from 0, t_i is bsKnots[i + 1].                     *)
(***************************************************************************)
MaxDegree == 5

\* Knot vectors before clamping: the one of the test fixture, a short one,
\* and one with a repeated inner knot.
BaseKnotVectors ==
    { << RatOfInt(0 - 4), Rat(0 - 1, 2), RatOfInt(0), Rat(1, 2), RatOfInt(4) >>,
      << RatOfInt(0), RatOfInt(1), RatOfInt(3) >>,
      << RatOfInt(0), RatOfInt(1), RatOfInt(1), RatOfInt(2) >> }

\* Evaluation points: every knot and the middle of every knot interval.
EvalPoints(base) ==
    { base[j] : j \in 1 .. Len(base) } \cup
    { RatDiv(RatAdd(base[j], base[j + 1]), RatOfInt(2)) : j \in 1 .. Len(base) - 1 }

\* "append and prepend the appropriate number of knots"
ClampedKnots(base, degree) ==
    [j \in 1 .. Len(base) + 2 * degree |->
        IF j <= degree THEN base[1]
        ELSE IF j > degree + Len(base) THEN base[Len(base)]
        ELSE base[j - degree]]

NBasisOneShort(base, degree) == Len(base) + degree - 2

\* int nBasis = knotVector_.size() + degree - 1
NBasis(base, degree) == Len(base) + degree - 1

\* A ratio of the recursion, with 0/0 = 0.
BsRatio(num, den) == IF den.n = 0 THEN RatOfInt(0) ELSE RatDiv(num, den)

BsDegreeZeroHalfOpen(knots, i, x) ==
    IF ~RatLess(x, knots[i + 1]) /\ RatLess(x, knots[i + 2])
    THEN RatOfInt(1) ELSE RatOfInt(0)

\* B_{i,0}(x): 1 on [t_i, t_{i+1}), and at the rightmost knot for the last
\* basis whose interval is not empty.
BsDegreeZero(knots, i, x) ==
    IF \/ ~RatLess(x, knots[i + 1]) /\ RatLess(x, knots[i + 2])
       \/ /\ x = knots[Len(knots)]
          /\ knots[i + 2] = knots[Len(knots)]
          /\ RatLess(knots[i + 1], knots[i + 2])
    THEN RatOfInt(1) ELSE RatOfInt(0)

\* B_{i,k}(x) = alpha B_{i,k-1}(x) + (1 - beta) B_{i+1,k-1}(x)
RECURSIVE Basis(_, _, _, _)
Basis(knots, k, i, x) ==
    IF k = 0 THEN BsDegreeZero(knots, i, x)
    ELSE RatAdd(
            RatMul(BsRatio(RatSub(x, knots[i + 1]),
                           RatSub(knots[i + k + 1], knots[i + 1])),
                   Basis(knots, k - 1, i, x)),
            RatMul(BsRatio(RatSub(knots[i + k + 2], x),
                           RatSub(knots[i + k + 2], knots[i + 2])),
                   Basis(knots, k - 1, i + 1, x)))

BsInit ==
    /\ bsPc = "build"
    /\ bsBase \in BaseKnotVectors
    /\ bsDegree \in 0 .. MaxDegree
    /\ bsX \in EvalPoints(bsBase)
    /\ bsKnots = << >>
    /\ bsValues = << >>

\* The knot vector is clamped for the degree.
BuildKnots ==
    /\ bsPc = "build"
    /\ bsKnots' = ClampedKnots(bsBase, bsDegree)
    /\ bsPc' = "eval"
    /\ UNCHANGED << bsBase, bsDegree, bsX, bsValues >>
    /\ UNCHANGED << saVars, frVars, agVars, mpVars, ssVars,
                    hpVars, iaVars, woVars >>

\* One turn of the loop over the basis: B(knots, degree, j, x).
EvalBasis ==
    /\ bsPc = "eval"
    /\ Len(bsValues) < NBasis(bsBase, bsDegree)
    /\ bsValues' = Append(bsValues, Basis(bsKnots, bsDegree, Len(bsValues), bsX))
    /\ UNCHANGED << bsPc, bsBase, bsDegree, bsX, bsKnots >>
    /\ UNCHANGED << saVars, frVars, agVars, mpVars, ssVars,
                    hpVars, iaVars, woVars >>

\* The loop over the basis has ended.
EvalEnd ==
    /\ bsPc = "eval"
    /\ Len(bsValues) = NBasis(bsBase, bsDegree)
    /\ bsPc' = "done"
    /\ UNCHANGED << bsBase, bsDegree, bsX, bsKnots, bsValues >>
    /\ UNCHANGED << saVars, frVars, agVars, mpVars, ssVars,
                    hpVars, iaVars, woVars >>

BsNext ==
    \/ BuildKnots
    \/ EvalBasis
    \/ EvalEnd

\* No basis is being evaluated.
BsIdle ==
    /\ bsPc = "idle"
    /\ bsBase = << >>
    /\ bsDegree = 0
    /\ bsX = RatOfInt(0)
    /\ bsKnots = << >>
    /\ bsValues = << >>

(***************************************************************************)
(* Specifications.                                                         *)
(***************************************************************************)
Init ==
    SaInit /\ FrIdle /\ AgIdle /\ MpIdle /\ BsIdle
    /\ SsIdle /\ HpIdle /\ IaIdle /\ WoIdle
Next == SaNext
Spec == Init /\ [][Next]_vars

NextRerun == SaNext \/ OptimiseAgain
SpecRerun == Init /\ [][NextRerun]_vars

InitFrames ==
    SaInit /\ FrInit /\ AgIdle /\ MpIdle /\ BsIdle
    /\ SsIdle /\ HpIdle /\ IaIdle /\ WoIdle
NextFrames == FrNext
SpecFrames == InitFrames /\ [][NextFrames]_vars

NextFramesSerial == FrNextSerial
SpecFramesSerial == InitFrames /\ [][NextFramesSerial]_vars

InitAgg ==
    SaInit /\ FrIdle /\ AgInit /\ MpIdle /\ BsIdle
    /\ SsIdle /\ HpIdle /\ IaIdle /\ WoIdle
NextAgg == AgNext
SpecAgg == InitAgg /\ [][NextAgg]_vars

InitProfile ==
    SaInit /\ FrIdle /\ AgInitProfile /\ MpIdle /\ BsIdle
    /\ SsIdle /\ HpIdle /\ IaIdle /\ WoIdle
NextProfile == AgNext
SpecProfile == InitProfile /\ [][NextProfile]_vars

InitMapping ==
    SaInit /\ FrIdle /\ AgIdle /\ MpInit /\ BsIdle
    /\ SsIdle /\ HpIdle /\ IaIdle /\ WoIdle
NextMapping == MpNext
SpecMapping == InitMapping /\ [][NextMapping]_vars

InitHydrophobicity ==
    SaInit /\ FrIdle /\ AgIdle /\ MpInit /\ BsIdle
    /\ SsIdle /\ HpInit /\ IaIdle /\ WoIdle
SpecHydrophobicity == InitHydrophobicity /\ [][HpNext]_vars

InitInitAnalysis ==
    SaInit /\ FrIdle /\ AgIdle /\ MpIdle /\ BsIdle
    /\ SsIdle /\ HpIdle /\ IaInit /\ WoIdle
SpecInitAnalysis == InitInitAnalysis /\ [][IaNext]_vars

InitObj ==
    SaInit /\ FrIdle /\ AgIdle /\ MpIdle /\ BsIdle
    /\ SsIdle /\ HpIdle /\ IaIdle /\ WoInit
SpecObj == InitObj /\ [][WoNext]_vars

SpecStats == Init /\ [][SsNext]_vars

InitSpline ==
    SaInit /\ FrIdle /\ AgIdle /\ MpIdle /\ BsInit
    /\ SsIdle /\ HpIdle /\ IaIdle /\ WoIdle
NextSpline == BsNext
SpecSpline == InitSpline /\ [][NextSpline]_vars

(***************************************************************************)
(* Properties of the annealing module (specification Spec).                *)
(***************************************************************************)
InRun == phase \in {"loop", "done"}

Iterations == 1 .. Len(trace)

\* C1: annealIsotropic returns after exactly maxCoolingIter iterations, for
\* every maxCoolingIter >= 0, the default 0 included.
C1_ExactlyMaxCoolingIter ==
    phase = "done" => Len(trace) = maxCoolingIter_

\* C2: within one run bestCost never decreases from one iteration to the
\* next, and it is never below the objective value of the initial guess.
C2_BestCostNonDecreasing ==
    InRun =>
        /\ \A i \in Iterations : trace[i].bestAfter >= trace[i].bestBefore
        /\ \A i \in Iterations :
              i < Len(trace) => trace[i + 1].bestBefore = trace[i].bestAfter
        /\ Len(trace) > 0 => bestCost_ = trace[Len(trace)].bestAfter
        /\ bestCost_ >= ObjFunValue(objFun_, initGuess)

\* C2 witness: a run that accepted a candidate worse than the best so far.
C2_Witness ==
    /\ phase = "done"
    /\ \E i \in Iterations :
          trace[i].accepted /\ trace[i].candCost < trace[i].bestBefore
    /\ \E i \in Iterations : trace[i].newBest

\* C3: the seed handed to setParams is what determines the draws: during a
\* run the engine is in the state of an engine seeded with that seed and
\* advanced once per draw made (stateDim_ + 1 draws per iteration).
C3_SeedDeterminesDraws ==
    (InRun /\ Has(params, "saSeed")) =>
        rng_ = RngAfter(RngSeeded(params["saSeed"]),
                        nCoolingIter * (stateDim_ + 1))

\* C4: from the initial evaluation on, bestCost is the objective value of
\* bestState, bestState is the initial guess or an accepted candidate, and
\* getOptimPoint returns that pair.
C4_OptimPointIsBest ==
    /\ InRun =>
          /\ bestCost_ = ObjFunValue(objFun_, bestState_)
          /\ bestState_ \in {initGuess} \cup
                { trace[i].cand : i \in { j \in Iterations : trace[j].accepted } }
    /\ result # << >> =>
          /\ result[1].first = bestState_
          /\ result[1].second = ObjFunValue(objFun_, result[1].first)

\* C4 witness: getOptimPoint returned an accepted candidate, not the guess.
C4_Witness ==
    /\ result # << >>
    /\ result[1].first # initGuess
    /\ \E i \in Iterations : trace[i].accepted /\ ~trace[i].newBest

\* C5 as stated: setParams fails whenever any one of the five options is
\* absent from the map.
C5_AllFiveRequired ==
    ("setParams" \in called /\
     \E k \in {"saSeed", "saMaxCoolingIter", "saInitTemp", "saCoolingFactor",
               "saStepLengthFactor"} : ~Has(params, k))
        => phase = "aborted"

\* C5 amended: setParams fails exactly when one of maxCoolingIter, initTemp,
\* coolingFactor, stepLengthFactor is absent; these four never fall back to
\* a default; an absent seed is tolerated and seed_ is left as it was.
C5_FourRequiredSeedOptional ==
    "setParams" \in called =>
        /\ phase = "aborted" <=>
              \E k \in {"saMaxCoolingIter", "saInitTemp", "saCoolingFactor",
                        "saStepLengthFactor"} : ~Has(params, k)
        /\ phase = "setup" =>
              /\ maxCoolingIter_ = params["saMaxCoolingIter"]
              /\ temp_ = Rat(params["saInitTemp"], 1)
              /\ coolingFactor_ = Rat(params["saCoolingFactor"], 2)
              /\ stepLengthFactor_ = params["saStepLengthFactor"]
        /\ IF Has(params, "saSeed")
           THEN seed_ = params["saSeed"]
           ELSE "saSeed" \notin assigned

\* C5 witness: setParams returned normally from a map without a seed.
C5_Witness ==
    /\ "setParams" \in called
    /\ phase = "setup"
    /\ ~Has(params, "saSeed")
    /\ "saSeed" \notin assigned

\* C6: an initial temperature <= 0 is rejected, so no iteration runs at a
\* temperature that is not strictly positive.
C6_InvalidTemperatureRejected ==
    InRun =>
        /\ params["saInitTemp"] > 0
        /\ \A i \in Iterations : RatPos(trace[i].temp)

\* C7: a cooling factor outside (0,1) is rejected, so in every run the
\* temperature strictly decreases from iteration to iteration.
C7_InvalidCoolingFactorRejected ==
    InRun =>
        /\ RatPos(coolingFactor_)
        /\ RatLess(coolingFactor_, Rat(1, 1))
        /\ \A i \in Iterations :
              i < Len(trace) => RatLess(trace[i + 1].temp, trace[i].temp)

\* The current state and cost as iteration i left them.
CrntStateAfter(i) == IF i < Len(trace) THEN trace[i + 1].from ELSE crntState_
CrntCostAfter(i) == IF i < Len(trace) THEN trace[i + 1].fromCost ELSE crntCost_

\* C23: every candidate whose cost is greater than or equal to the current
\* cost is accepted; on acceptance the current state and cost become the
\* candidate's; the best state and cost become the candidate's exactly when
\* the candidate is accepted with candCost > bestCost.
C23_AcceptanceRule ==
    InRun =>
        \A i \in Iterations :
            /\ trace[i].candCost >= trace[i].fromCost => trace[i].accepted
            /\ trace[i].accepted =>
                  /\ CrntStateAfter(i) = trace[i].cand
                  /\ CrntCostAfter(i) = trace[i].candCost
            /\ trace[i].newBest <=>
                  (trace[i].accepted /\ trace[i].candCost > trace[i].bestBefore)
            /\ trace[i].bestAfter =
                  IF trace[i].newBest THEN trace[i].candCost
                  ELSE trace[i].bestBefore

\* a * b^k
RECURSIVE RatPow(_, _, _)
RatPow(a, b, k) == IF k = 0 THEN a ELSE RatPow(RatMul(a, b), b, k - 1)

\* C24: the temperature is multiplied by the cooling factor exactly once
\* per iteration, accepted or not, after the decision: the acceptance test
\* of iteration k (counted from 0) uses T0 * gamma^k, and after N iterations
\* the temperature is T0 * gamma^N.
C24_CooledOncePerIteration ==
    InRun =>
        LET T0 == InitTempOf(params["saInitTemp"])
        IN  /\ \A i \in Iterations :
                  trace[i].temp = RatPow(T0, coolingFactor_, i - 1)
            /\ temp_ = RatPow(T0, coolingFactor_, Len(trace))

\* C24 witness: a finished run with T0 = 2 and gamma = 1/2 that accepted
\* one candidate and rejected another.
C24_Witness ==
    /\ phase = "done"
    /\ params["saInitTemp"] = 2
    /\ coolingFactor_ = Rat(1, 2)
    /\ Len(trace) = MaxIter
    /\ \E i \in Iterations : trace[i].accepted
    /\ \E i \in Iterations : ~trace[i].accepted

\* The objective values of the initial guess and of every candidate that
\* the run has generated.
CostsSeen ==
    {ObjFunValue(objFun_, initGuess)} \cup { trace[i].candCost : i \in Iterations }

\* C27: from the initial evaluation on bestCost >= crntCost; a candidate
\* whose cost exceeds bestCost is never rejected; at the end of the run
\* bestCost is the largest objective value over the initial guess and all
\* candidates generated.
C27_BestBoundsCurrent ==
    InRun =>
        /\ bestCost_ >= crntCost_
        /\ \A i \in Iterations :
              /\ trace[i].bestBefore >= trace[i].fromCost
              /\ trace[i].candCost > trace[i].bestBefore => trace[i].accepted
        /\ phase = "done" => \A c \in CostsSeen : bestCost_ >= c

\* A step of the loop that rejected its candidate.
RejectingIteration ==
    /\ phase = "loop"
    /\ Len(trace') = Len(trace) + 1
    /\ ~trace'[Len(trace')].accepted

\* What no iteration writes.
saSettings == << called, params, assigned, seed_, maxCoolingIter_,
                 coolingFactor_, stepLengthFactor_, objFun_, stateDim_,
                 initGuess, result >>

\* Candidates are generated from the current state, one step away at most
\* in each coordinate, and the state vectors keep the size of the guess.
CandidateFromCurrent ==
    InRun =>
        /\ \A i \in Iterations :
              /\ i > 1 /\ ~trace[i - 1].accepted =>
                    trace[i].from = trace[i - 1].from
              /\ \A j \in 1 .. Len(initGuess) :
                    trace[i].cand[j] - trace[i].from[j] \in
                        { stepLengthFactor_ * g : g \in -1 .. 1 }
        /\ Len(crntState_) = Len(initGuess)
        /\ Len(candState_) = Len(initGuess)
        /\ Len(bestState_) = Len(initGuess)
        /\ stateDim_ = Len(initGuess)

\* C28 as stated: an iteration that rejects its candidate changes nothing
\* but candState, candCost, the temperature and the iteration counter; the
\* next candidate is generated from crntState; the three state vectors keep
\* the size of the initial guess.
C28_RejectionChangesOnlyCandidate ==
    /\ [][RejectingIteration =>
            UNCHANGED << crntState_, crntCost_, bestState_, bestCost_, rng_,
                         saSettings >>]_vars
    /\ []CandidateFromCurrent

\* C28 amended: the rejecting iteration also advances the random engine (by
\* the stateDim_ draws of the candidate and the draw of the acceptance
\* test); everything else is as stated.
C28_RejectionChangesCandidateAndEngine ==
    /\ [][RejectingIteration =>
            /\ UNCHANGED << crntState_, crntCost_, bestState_, bestCost_,
                            saSettings >>
            /\ rng_' = RngAfter(rng_, stateDim_ + 1)]_vars
    /\ []CandidateFromCurrent

\* C28 witness: a candidate different from the current state was rejected
\* and a further iteration followed.
C28_Witness ==
    /\ InRun
    /\ \E i \in Iterations :
          /\ i < Len(trace)
          /\ ~trace[i].accepted
          /\ trace[i].cand # trace[i].from
          /\ trace[i + 1].cand # trace[i + 1].from

(***************************************************************************)
(* Properties of a module that is run twice (specification SpecRerun).     *)
(***************************************************************************)
\* A step of setParams, and a pass through the loop body.
SetParamsStep == "setParams" \notin called /\ "setParams" \in called'
IterationStep == Len(trace') = Len(trace) + 1

\* The iterations of the run before the current one.
PreviousIterations == Len(trace) - nCoolingIter

\* C30: only setParams and cool() write the temperature, and only the draws
\* of an iteration advance the random engine; so a second optimise() with no
\* setParams in between starts at T0 * gamma^N, N the iterations of the
\* first run, and its draws continue the stream of the first run.
C30_SecondRunStartsCooled ==
    /\ [][/\ temp_' # temp_ =>
                \/ SetParamsStep
                \/ IterationStep /\ temp_' = Cool(temp_, coolingFactor_)
          /\ rng_' # rng_ => IterationStep]_vars
    /\ [](InRun =>
            /\ temp_ = RatPow(InitTempOf(params["saInitTemp"]), coolingFactor_,
                              Len(trace))
            /\ rng_ = RngAfter(DefaultRngState, Len(trace) * (stateDim_ + 1))
            /\ (PreviousIterations > 0 /\ nCoolingIter > 0) =>
                  trace[PreviousIterations + 1].temp =
                      RatPow(InitTempOf(params["saInitTemp"]), coolingFactor_,
                             PreviousIterations))

\* C30 witness: the second run has ended; it started below T0.
C30_Witness ==
    /\ phase = "done"
    /\ PreviousIterations = MaxIter
    /\ nCoolingIter = MaxIter
    /\ params["saInitTemp"] = 2
    /\ coolingFactor_ = Rat(1, 2)
    /\ trace[MaxIter + 1].temp = Rat(1, 4)
    /\ result # << >>

(***************************************************************************)
(* Properties of the per-frame analysis (specification SpecFrames).        *)
(***************************************************************************)
\* C8: the stream file holds the records in strictly increasing frame
\* order, one complete record per frame, whatever the order in which the
\* frames start and finish; a record is written only after its frame's
\* finishFrame and after the records of all frames before it.
C8_StreamInFrameOrder ==
    /\ \A i \in 1 .. Len(streamFile) :
          /\ streamFile[i].frame = i - 1
          /\ streamFile[i].of = i - 1
          /\ streamFile[i].sets = FrameDataSets
          /\ frPc[i - 1] = "done"
    /\ \A f \in Frames :
          (\A g \in 0 .. f : frPc[g] = "done") => Len(streamFile) > f

\* C8 witness: a later frame finished before an earlier one, and both
\* records are in the file.
C8_Witness ==
    /\ Len(streamFile) >= 2
    /\ \E i, j \in 1 .. Len(frOrder) : i < j /\ frOrder[i] > frOrder[j]

\* The initial probe position and band width a frame would use on its own.
OwnInitProbePos(f) ==
    IF cfg.pfInitProbePosIsSet THEN ExplicitInitProbePos
    ELSE CentreOfMass(InitPosSelection(cfg), f)

OwnBandWidth(f) ==
    IF cfg.bandWidthAuto THEN AmiseBandWidth(f) ELSE 1

\* C9: a frame's analysis neither reads what another frame wrote nor has
\* its outputs overwritten: the initial probe position and the band width
\* a frame uses are its own, and the OBJ file one frame wrote is not
\* written by another.
C9_NoSharedMutableState ==
    /\ \A f \in Frames :
          frPc[f] \in {"bw", "de", "obj", "fin", "done"} =>
              frLocal[f].initProbePos = OwnInitProbePos(f)
    /\ \A f \in Frames :
          frPc[f] \in {"obj", "fin", "done"} =>
              frLocal[f].bandWidth = OwnBandWidth(f)
    /\ Len(objFile) <= 1

BadPositions == { i \in 1 .. Len(StreamSeen(1)) : ~StreamSeen(1)[i].ok }

\* Lines the first pass has taken from the file, the one it threw on
\* included.
LinesVisited ==
    linesRead + (IF agPc = "failed" /\ agError = "notJsonObject" /\
                    linesProcessed = 0 /\ radiusTimeSeries = << >> /\
                    linesRead < Len(StreamSeen(1)) /\
                    ~StreamSeen(1)[linesRead + 1].ok
                 THEN 1 ELSE 0)

\* C10 as stated: an unreadable line is skipped and counted, every
\* remaining line is still processed, and failure is reported at the end.
C10_SkipsUnreadableLines ==
    (agPc = "failed" /\ BadPositions # {}) =>
        /\ LinesVisited = Len(StreamSeen(1))
        /\ lengthTimeSeries =
              [i \in 1 .. Len(lengthTimeSeries) |->
                  StreamSeen(1)[
                      CHOOSE k \in 1 .. Len(StreamSeen(1)) :
                          /\ StreamSeen(1)[k].ok
                          /\ Cardinality({ j \in 1 .. k : StreamSeen(1)[j].ok }) = i
                  ].length]
        /\ Len(lengthTimeSeries) = Len(StreamSeen(1)) - Cardinality(BadPositions)

\* C10 amended: the first line that is not a JSON object makes
\* finishAnalysis throw at once: the line is neither skipped nor counted,
\* no line after it is read, no pass after the first is started, and what
\* was accumulated comes from the lines before it only.
C10_FailsAtFirstUnreadableLine ==
    BadPositions # {} =>
        LET first == CHOOSE i \in BadPositions : \A j \in BadPositions : i <= j
        IN  /\ agPc \in {"pass1", "failed"}
            /\ linesRead < first
            /\ linesProcessed = 0
            /\ lengthTimeSeries =
                  [i \in 1 .. linesRead |-> StreamSeen(1)[i].length]
            /\ agPc = "failed" =>
                  /\ agError = "notJsonObject"
                  /\ linesRead = first - 1

\* C10 witness: finishAnalysis threw on an unreadable line with readable
\* lines before and after it.
C10_Witness ==
    /\ agPc = "failed"
    /\ agError = "notJsonObject"
    /\ linesRead >= 1
    /\ linesRead + 1 < Len(StreamSeen(1))
    /\ StreamSeen(1)[Len(StreamSeen(1))].ok

\* C11: when finishAnalysis fails on the stream (a pass finds it unopenable
\* or counts a number of lines other than numFrames), neither the PDB file
\* nor the results JSON file has been written.
C11_NoOutputsOnStreamFailure ==
    (agPc = "failed" /\ agError \in {"linesRead", "linesProcessed", "linesCopied"})
        => (~pdbFile /\ ~outFile.results)

\* C12: the results object is in the output file before any stream line is
\* appended, the appended lines are at every moment the lines read so far in
\* stream order, and after success they are exactly the numFrames lines of
\* the stream.
C12_OutputIsResultsThenStream ==
    /\ outFile.lines # << >> => outFile.results
    /\ outFile.lines = SubSeq(StreamSeen(3), 1, linesCopied)
    /\ agPc = "done" =>
          /\ outFile.results
          /\ Len(outFile.lines) = numFrames
          /\ outFile.lines = StreamSeen(3)

\* C12 witness: a successful call that appended two different lines.
C12_Witness ==
    /\ agPc = "done"
    /\ Len(outFile.lines) >= 2
    /\ outFile.lines[1] # outFile.lines[2]
    /\ outFile.lines = inFileLines

\* C13: the stream file is removed exactly when finishAnalysis succeeds,
\* after all three passes counted numFrames lines and every line the copy
\* pass read is in the output file; no failing path removes it.
C13_StreamRemovedIffSuccess ==
    /\ streamRemoved <=> agPc = "done"
    /\ streamRemoved =>
          /\ linesRead = numFrames
          /\ linesProcessed = numFrames
          /\ linesCopied = numFrames
          /\ outFile.lines = StreamSeen(3)
    /\ agPc = "failed" => ~streamRemoved

\* C13 witness: the stream file was removed after a call over two frames or
\* more.
C13_Witness ==
    /\ streamRemoved
    /\ numFrames >= 2
    /\ linesCopied = numFrames

\* The statistics finishAnalysis keeps: the scalar ones, one per support
\* point, one per pore residue.
AllSummaries ==
    { lengthSummary, arcLengthLoSummary, arcLengthHiSummary,
      anchorEnergyLo, anchorEnergyHi }
        \cup { energySummary[i] : i \in 1 .. Len(energySummary) }
        \cup { residueArcSummary[i] : i \in 1 .. Len(residueArcSummary) }

\* The steps that end a pass having read n lines.
PassEnds(pc, n) ==
    agPc = pc /\ agPc' # pc /\ n = Len(StreamSeen(
        CASE pc = "pass1" -> 1 [] pc = "pass2" -> 2 [] OTHER -> 3))

\* C29: when finishAnalysis(numFrames) has returned normally, each of the
\* three passes has read numFrames lines, every statistic (scalar, per
\* support point, per residue) has been updated numFrames times, and the
\* time series and the time stamps hold numFrames entries in the order of
\* the stream; a pass that ends having read another number of lines makes
\* finishAnalysis fail.
C29_EveryPassReadsNumFrames ==
    /\ [](agPc = "done" =>
            /\ linesRead = numFrames
            /\ linesProcessed = numFrames
            /\ linesCopied = numFrames
            /\ \A st \in AllSummaries : st.num = numFrames
            /\ Len(energySummary) = outputNumPoints_
            /\ Len(residueArcSummary) = numPoreRes
            /\ timeStamps =
                  [i \in 1 .. numFrames |-> StreamSeen(1)[i].timeStamp]
            /\ lengthTimeSeries =
                  [i \in 1 .. numFrames |-> StreamSeen(1)[i].length]
            /\ radiusTimeSeries =
                  [i \in 1 .. numFrames |-> StreamSeen(2)[i].length])
    /\ [][ /\ PassEnds("pass1", linesRead) /\ linesRead # numFrames
              => agPc' = "failed"
           /\ PassEnds("pass2", linesProcessed) /\ linesProcessed # numFrames
              => agPc' = "failed"
           /\ PassEnds("copy", linesCopied) /\ linesCopied # numFrames
              => agPc' = "failed" ]_vars

\* C29 witness: finishAnalysis has returned normally from a stream of
\* three frames whose time stamps differ, with statistics per residue.
C29_Witness ==
    /\ agPc = "done"
    /\ numFrames = 3
    /\ numPoreRes = 2
    /\ timeStamps[1] # timeStamps[2]
    /\ residueArcSummary[2].num = 3
    /\ Len(outFile.lines) = 3

(***************************************************************************)
(* Properties of the aggregated statistics (specifications SpecProfile and *)
(* SpecAgg).  The expected values are computed from the lines of the       *)
(* stream directly, not by the online algorithm.                           *)
(***************************************************************************)
PastFirstPass == agPc \in {"pass2", "output", "results", "copy", "done"}
PastSecondPass == agPc \in {"output", "results", "copy", "done"}

FrameLines == 1 .. Len(inFileLines)

MinOf(S) == CHOOSE x \in S : \A y \in S : x <= y
MaxOf(S) == CHOOSE x \in S : \A y \in S : x >= y

RatMean(q) == RatDiv(RatSum(q), RatOfInt(Len(q)))

\* The sum of the squared deviations of the members of q from their mean.
RatSquares(q) ==
    RatSum([k \in 1 .. Len(q) |->
              RatMul(RatSub(q[k], RatMean(q)), RatSub(q[k], RatMean(q)))])

\* C14: for every positive number of output points the grid has that many
\* equally spaced support points, from min(sLo) - extrap to
\* max(sHi) + extrap, and it does not change during the second pass.
C14_GridOnArcLengthRange ==
    (PastFirstPass /\ numFrames >= 1) =>
        LET lo == MinOf({ inFileLines[k].arcLengthLo : k \in FrameLines })
                      - outputExtrapDist_
            hi == MaxOf({ inFileLines[k].arcLengthHi : k \in FrameLines })
                      + outputExtrapDist_
            n == outputNumPoints_
        IN  /\ Len(supportPoints) = n
            /\ supportPoints[1] = RatOfInt(lo)
            /\ supportPoints[n] = RatOfInt(hi)
            /\ \A i \in 1 .. n - 1 :
                  RatSub(supportPoints[i + 1], supportPoints[i]) =
                      RatDiv(RatOfInt(hi - lo), RatOfInt(n - 1))

\* The energy samples of all frames at support point i.
EnergySamplesAt(i) == [k \in FrameLines |-> EnergySample(inFileLines[k], i)]

AnchorMeanLo == RatMean([k \in FrameLines |-> RatOfInt(inFileLines[k].anchorLo)])
AnchorMeanHi == RatMean([k \in FrameLines |-> RatOfInt(inFileLines[k].anchorHi)])

\* C15: the anchor points are min(sLo) and max(sHi), and after the second
\* pass every support point's energy statistics are
\* those of its samples moved by the one constant
\* c = -(mean anchor energy low + mean anchor energy high) / 2: mean, min
\* and max are moved by c once, count and squared deviations are untouched,
\* and the mean of the two mean anchor energies plus c is zero.
C15_EnergyShiftedOnce ==
    (PastSecondPass /\ numFrames >= 1) =>
        LET c == RatSub(RatOfInt(0),
                        RatDiv(RatAdd(AnchorMeanLo, AnchorMeanHi), RatOfInt(2)))
        IN  /\ AnchorPointLo(arcLengthLoSummary) =
                  RatOfInt(MinOf({ inFileLines[k].arcLengthLo : k \in FrameLines }))
            /\ AnchorPointHi(arcLengthHiSummary) =
                  RatOfInt(MaxOf({ inFileLines[k].arcLengthHi : k \in FrameLines }))
            /\ RatAdd(RatDiv(RatAdd(anchorEnergyLo.mean, anchorEnergyHi.mean),
                             RatOfInt(2)), c) = RatOfInt(0)
            /\ Len(energySummary) = Len(supportPoints)
            /\ \A i \in 1 .. Len(energySummary) :
                  LET q == EnergySamplesAt(i)
                      values == { q[k] : k \in FrameLines }
                  IN  /\ energySummary[i].num = numFrames
                      /\ energySummary[i].mean = RatAdd(RatMean(q), c)
                      /\ \E v \in values :
                            /\ \A w \in values : ~RatLess(w, v)
                            /\ energySummary[i].min = RatAdd(v, c)
                      /\ \E v \in values :
                            /\ \A w \in values : ~RatLess(v, w)
                            /\ energySummary[i].max = RatAdd(v, c)
                      /\ energySummary[i].m2 = RatSquares(q)

\* C15 witness: two frames with different energies, a shift that is not
\* zero, and a support point whose samples differ.
C15_Witness ==
    /\ agPc = "done"
    /\ numFrames >= 2
    /\ EnergyShift(anchorEnergyLo, anchorEnergyHi) # RatOfInt(0)
    /\ anchorEnergyLo.mean # anchorEnergyHi.mean
    /\ Len(energySummary) >= 2
    /\ energySummary[2].m2 # RatOfInt(0)

\* C20: when every frame of the run has the same value v of a scalar, the
\* summary of that scalar has mean v, variance (hence standard deviation)
\* zero, min = max = v and one update per frame.
C20_EqualFramesAggregate ==
    (PastFirstPass /\ numFrames >= 1 /\
     \A k \in FrameLines : inFileLines[k].length = inFileLines[1].length) =>
        LET v == RatOfInt(inFileLines[1].length)
        IN  /\ lengthSummary.num = numFrames
            /\ lengthSummary.mean = v
            /\ lengthSummary.m2 = RatOfInt(0)
            /\ SsVar(lengthSummary) = RatOfInt(0)
            /\ lengthSummary.min = v
            /\ lengthSummary.max = v

\* C20 witness: a successful run over three frames of equal length 2.
C20_Witness ==
    /\ agPc = "done"
    /\ numFrames >= 3
    /\ \A k \in FrameLines : inFileLines[k].length = 2
    /\ lengthSummary.num = numFrames

(***************************************************************************)
(* Properties of the residue classification (specification SpecMapping).   *)
(***************************************************************************)
\* C16: a residue's pore-facing flag is true exactly when the residue is
\* pore-lining and its COG is strictly closer to the centreline than its
\* C-alpha; so pore-facing implies pore-lining, there are never more
\* pore-facing than pore-lining residues, and when the loop is done every
\* mapped residue has exactly one flag.
C16_PoreFacingIffLiningAndCloser ==
    /\ \A i \in 1 .. Len(poreFacing) :
          /\ poreFacing[i] <=> (poreLining[i] /\ poreCogRR[i] < poreCalRR[i])
          /\ poreFacing[i] => poreLining[i]
    /\ nPoreFacing = Cardinality({ i \in 1 .. Len(poreFacing) : poreFacing[i] })
    /\ mpPc \in {"facing", "done"} => nPoreFacing <= nPoreLining
    /\ mpPc = "done" => DOMAIN poreFacing = DOMAIN poreCogRR

\* C16 witness: one residue is pore-facing, another has its COG closer than
\* its C-alpha without being pore-lining.
C16_Witness ==
    /\ mpPc = "done"
    /\ \E i \in 1 .. Len(poreFacing) : poreFacing[i]
    /\ \E i \in 1 .. Len(poreFacing) :
          ~poreLining[i] /\ poreCogRR[i] < poreCalRR[i] /\ ~poreFacing[i]

(***************************************************************************)
(* Properties of the smoother input (specification SpecHydrophobicity).    *)
(***************************************************************************)
\* The arc-length coordinates of all mapped residues, as integers.
ResidueCoords == { poreCogSS[i].n : i \in 1 .. Len(poreCogSS) }

\* The last two samples of a profile are zero-valued and lie at lo and hi.
PaddedAt(coordS, hydrophobicity, lo, hi) ==
    LET n == Len(coordS)
    IN  /\ n >= 2
        /\ Len(hydrophobicity) = n
        /\ coordS[n - 1] = lo
        /\ coordS[n] = hi
        /\ hydrophobicity[n - 1] = RatOfInt(0)
        /\ hydrophobicity[n] = RatOfInt(0)

\* C22 as stated: both profiles get two zero-valued samples, one bandwidth
\* below the smallest and one bandwidth above the largest arc-length
\* coordinate of all mapped residues of the frame.
C22_PaddedByOneBandWidth ==
    (hpPc = "done" /\ poreCogSS # << >>) =>
        LET lo == RatSub(RatOfInt(MinOf(ResidueCoords)), hpBandWidth_)
            hi == RatAdd(RatOfInt(MaxOf(ResidueCoords)), hpBandWidth_)
        IN  /\ PaddedAt(plResidueCoordS, plResidueHydrophobicity, lo, hi)
            /\ PaddedAt(pfResidueCoordS, pfResidueHydrophobicity, lo, hi)

\* C22 witness: two residues at different coordinates, the one with the
\* smallest coordinate neither pore-lining nor pore-facing, the other both;
\* the bandwidth is 1 and the lower sample lies 1/2 below the smallest.
C22_Witness ==
    /\ hpPc = "done"
    /\ Len(poreCogSS) = 2
    /\ RatLess(poreCogSS[1], poreCogSS[2])
    /\ ~poreLining[1]
    /\ poreLining[2]
    /\ poreFacing[2]
    /\ hpBandWidth_ = RatOfInt(1)
    /\ pfResidueCoordS[2] = RatSub(poreCogSS[1], Rat(1, 2))

(***************************************************************************)
(* Properties of initAnalysis (specification SpecInitAnalysis).            *)
(***************************************************************************)
\* C25: initAnalysis fails exactly when the mapping tolerance is not
\* positive, the extrapolation distance is negative, or the sampling step is
\* not positive; an extrapolation distance of 0 is accepted.
C25_MappingParametersValidated ==
    iaPc \in {"checked", "failed"} =>
        (iaPc = "failed" <=>
            \/ mappingParams_.mapTol_ <= 0
            \/ mappingParams_.extrapDist_ < 0
            \/ mappingParams_.sampleStep_ <= 0)

\* C25 witness: initAnalysis has failed on an extrapolation distance of 0,
\* the other two parameters being positive.
C25_Witness ==
    /\ iaPc = "failed"
    /\ mappingParams_.mapTol_ > 0
    /\ mappingParams_.extrapDist_ = 0
    /\ mappingParams_.sampleStep_ > 0
    /\ iaError = "Extrapolation distance set with pm-extrap-dist may not be negative."

(***************************************************************************)
(* Properties of WavefrontObjObject::scale (specification SpecObj).        *)
(***************************************************************************)
RECURSIVE Product(_)
Product(q) == IF q = << >> THEN 1 ELSE Head(q) * Product(Tail(q))

\* C26: scale(fac) scales the shape about its centre of geometry: after any
\* calls of scale on a non-empty vertex list the centre of geometry is where
\* it was, and the offset of each vertex from it is the original offset
\* times the factors (so scale(1) changes nothing and scale(a) followed by
\* scale(b) is scale(a*b)).
C26_ScalesAboutCentreOfGeometry ==
    woFactors # << >> =>
        LET cog == CalculateCog(woVertices)
            fac == RatOfInt(Product(woFactors))
        IN  /\ CalculateCog(vertices_) = cog
            /\ \A i \in 1 .. Len(woVertices) : \A c \in 1 .. 3 :
                  RatSub(vertices_[i][c], cog[c]) =
                      RatMul(fac, RatSub(woVertices[i][c], cog[c]))

\* C26 witness: scale(2) was called once on two vertices whose centre of
\* geometry is not the origin, and the centre of geometry has moved.
C26_Witness ==
    /\ woFactors = << 2 >>
    /\ Len(woVertices) = 2
    /\ woVertices[1] # woVertices[2]
    /\ CalculateCog(vertices_) # CalculateCog(woVertices)
    /\ CalculateCog(vertices_) = Multiplied(<< CalculateCog(woVertices) >>,
                                            RatOfInt(2))[1]

(***************************************************************************)
(* Properties of the basis functions (specification SpecSpline).           *)
(***************************************************************************)
\* C18: for every degree 0..5, every clamped knot vector and every point
\* from the first to the last knot, the values of all basis functions at
\* the point add up to 1.
C18_PartitionOfUnity ==
    bsPc = "done" =>
        /\ Len(bsValues) = Len(bsKnots) - bsDegree - 1
        /\ RatSum(bsValues) = RatOfInt(1)

\* C18 witness: degree 5, a point that is no knot, several basis functions
\* not zero there.
C18_Witness ==
    /\ bsPc = "done"
    /\ bsDegree = MaxDegree
    /\ \A j \in 1 .. Len(bsBase) : bsBase[j] # bsX
    /\ Cardinality({ j \in 1 .. Len(bsValues) : bsValues[j] # RatOfInt(0) }) >= 3

\* C19: at the first knot the first basis function is 1 and all others are
\* 0, at the last knot the last basis function is 1 and all others are 0,
\* for every degree.
C19_EndKnotInterpolation ==
    bsPc = "done" =>
        LET n == Len(bsValues)
        IN  /\ bsX = bsBase[1] =>
                  bsValues = [j \in 1 .. n |->
                                 IF j = 1 THEN RatOfInt(1) ELSE RatOfInt(0)]
            /\ bsX = bsBase[Len(bsBase)] =>
                  bsValues = [j \in 1 .. n |->
                                 IF j = n THEN RatOfInt(1) ELSE RatOfInt(0)]

\* C19 witness: a cubic basis evaluated at the last knot.
C19_Witness ==
    /\ bsPc = "done"
    /\ bsDegree = 3
    /\ bsX = bsBase[Len(bsBase)]
    /\ bsValues[Len(bsValues)] = RatOfInt(1)

(***************************************************************************)
(* Properties of a SummaryStatistics object (specification SpecStats).     *)
(***************************************************************************)
UpdateCalls == { k \in 1 .. Len(ssOps) : ssOps[k].op = "update" }

\* A step that is a call of shift.
ShiftStep ==
    /\ Len(ssOps') = Len(ssOps) + 1
    /\ ssOps'[Len(ssOps')].op = "shift"

\* C21: after any sequence of update(x) and shift(c), count >= 0, count is
\* the number of update calls, and min <= mean <= max whenever count > 0;
\* shift(c) leaves count and variance unchanged.
C21_SummaryStatisticsInvariant ==
    /\ [](/\ ssObj.num >= 0
          /\ ssObj.num = Cardinality(UpdateCalls)
          /\ ssObj.num > 0 =>
                /\ ~RatLess(ssObj.mean, ssObj.min)
                /\ ~RatLess(ssObj.max, ssObj.mean))
    /\ [][ShiftStep =>
            /\ ssObj'.num = ssObj.num
            /\ SsVar(ssObj') = SsVar(ssObj)]_vars

\* C21 witness: updates with different values, then a shift, then another
\* update; the variance is not zero.
C21_Witness ==
    /\ Len(ssOps) = MaxOps
    /\ ssOps[1].op = "update"
    /\ ssOps[2].op = "update"
    /\ ssOps[3].op = "shift"
    /\ ssOps[4].op = "update"
    /\ SsVar(ssObj) # RatOfInt(0)
    /\ RatLess(ssObj.min, ssObj.mean)

====
